---- MODULE Spec2Model ----
(***************************************************************************)
(* The file-backed matching-and-scoring core of volunteer-finder:          *)
(*   storage_manager.py     StorageManager (JSON collections)              *)
(*   file_monitor.py        FileMonitor (folder scans)                     *)
(*   incremental_scorer.py  IncrementalScorer (oracle calls, caching)      *)
(* A Python dict is a TLA+ function whose DOMAIN is its key set, a list is *)
(* a sequence, an exception is the "raised" field of an operation's        *)
(* outcome.                                                                *)
(***************************************************************************)
EXTENDS Integers, Sequences, FiniteSets, TLC

VARIABLES
    resumes_db,        \* contents of results/resumes_database.json
    opportunities_db,  \* contents of results/opportunities_database.json
    scores_db,         \* contents of results/scores_database.json
    clock,             \* datetime.now(), advanced by every save_score
    issued,            \* history: the ids handed out as new, per collection, in order
    last               \* the call whose outcome the caller holds: arguments and outcome

vars == <<resumes_db, opportunities_db, scores_db, clock, issued, last>>

(*************************** bounds and inputs *****************************)

\* Registrations are cut off once a collection's next_id has passed MaxId.
MaxId == 2

\* save_score calls are cut off once the clock has reached MaxClock.
MaxClock == 2

\* File names that appear in the resumes/ and opportunities/ folders.
ResumeFiles == {"alice.txt", "bob.txt"}
OppFiles == {"tutor.txt", "coach.txt"}

\* IncrementalScorer.__init__(threshold=70)
Threshold == 70

(****************************** Python values ******************************)

None == [none |-> TRUE]

\* An empty dict.
EmptyDict == [k \in {} |-> None]

\* dict.get(key), None when the key is absent.
Get(d, k) == IF k \in DOMAIN d THEN d[k] ELSE None

\* The dict d after d[k] = v.
Put(d, k, v) == [x \in (DOMAIN d) \cup {k} |-> IF x = k THEN v ELSE d[x]]

\* The dict d without the keys outside keep.
Restrict(d, keep) == [x \in (DOMAIN d) \cap keep |-> d[x]]

\* Keys in iteration order. The collections are keyed by ids inserted in
\* increasing order, and json.load / json.dump keep insertion order.
RECURSIVE SortedSeq(_)
SortedSeq(S) ==
    IF S = {} THEN <<>>
    ELSE LET m == CHOOSE x \in S : \A y \in S : x <= y
         IN <<m>> \o SortedSeq(S \ {m})

Keys(d) == SortedSeq(DOMAIN d)

Range(s) == {s[i] : i \in DOMAIN s}

(************************** injected I/O failures **************************)

\* An I/O fault makes every load_json or save_json of one collection file
\* fail for the duration of one operation (unreadable or read-only file).
NoFault == [file |-> "none", op |-> "none"]

Fault(file, op) == [file |-> file, op |-> op]

Fails(fault, file, op) == fault = Fault(file, op)

(****************************** StorageManager *****************************)

\* A collection file that does not exist yet.
Missing == [missing |-> TRUE]

\* initialize_databases: a file is written only when it does not exist.
InitResumesDb_Reset(db) == [resumes |-> EmptyDict, next_id |-> 1]

InitResumesDb(db) ==
    IF db = Missing THEN [resumes |-> EmptyDict, next_id |-> 1] ELSE db

InitOpportunitiesDb(db) ==
    IF db = Missing THEN [opportunities |-> EmptyDict, next_id |-> 1] ELSE db

InitScoresDb(db) ==
    IF db = Missing THEN [scores |-> EmptyDict] ELSE db

\* The outcome of a register_* call: the collection afterwards, the id
\* returned (0 when the call raised), the exception, and the files saved.
RegOutcome(db, ret, raised, writes) ==
    [db |-> db, ret |-> ret, raised |-> raised, writes |-> writes]

ResumeRecord(filename) ==
    [filename |-> filename, email |-> None, phone |-> None]

\* Mutants of register_resume: no filename check; the new id taken from the
\* collection's size instead of the counter.
RegisterResume_NoDedup(db, filename, fault) ==
    RegOutcome([resumes |-> Put(db.resumes, db.next_id, ResumeRecord(filename)),
                next_id |-> db.next_id + 1],
               db.next_id, "none", <<"resumes">>)

RegisterResume_SizePlusOne(db, filename, fault) ==
    LET hit == {id \in DOMAIN db.resumes : db.resumes[id].filename = filename}
        new_id == Cardinality(DOMAIN db.resumes) + 1
    IN IF hit # {}
       THEN RegOutcome(db, Keys(Restrict(db.resumes, hit))[1], "none", <<>>)
       ELSE RegOutcome([resumes |-> Put(db.resumes, new_id, ResumeRecord(filename)),
                        next_id |-> new_id + 1],
                       new_id, "none", <<"resumes">>)

\* register_resume(filename, file_path, text)
RegisterResume(db, filename, fault) ==
    IF Fails(fault, "resumes", "load")
    THEN RegOutcome(db, 0, "StorageError", <<>>)
    ELSE LET hit == {id \in DOMAIN db.resumes : db.resumes[id].filename = filename}
             new_id == db.next_id
         IN IF hit # {}
            THEN RegOutcome(db, Keys(Restrict(db.resumes, hit))[1], "none", <<>>)
            ELSE IF Fails(fault, "resumes", "save")
            THEN RegOutcome(db, 0, "StorageError", <<>>)
            ELSE RegOutcome([resumes |-> Put(db.resumes, new_id, ResumeRecord(filename)),
                             next_id |-> db.next_id + 1],
                            new_id, "none", <<"resumes">>)

OpportunityRecord(filename) ==
    [filename |-> filename, position |-> filename]

\* register_opportunity(filename, file_path, text, position)
RegisterOpportunity(db, filename, fault) ==
    IF Fails(fault, "opportunities", "load")
    THEN RegOutcome(db, 0, "StorageError", <<>>)
    ELSE LET hit == {id \in DOMAIN db.opportunities :
                        db.opportunities[id].filename = filename}
             new_id == db.next_id
         IN IF hit # {}
            THEN RegOutcome(db, Keys(Restrict(db.opportunities, hit))[1], "none", <<>>)
            ELSE IF Fails(fault, "opportunities", "save")
            THEN RegOutcome(db, 0, "StorageError", <<>>)
            ELSE RegOutcome([opportunities |->
                                Put(db.opportunities, new_id, OpportunityRecord(filename)),
                             next_id |-> db.next_id + 1],
                            new_id, "none", <<"opportunities">>)

\* get_resume(resume_id) / get_opportunity(opp_id): None when absent.
GetResume(db, resume_id) == Get(db.resumes, resume_id)

GetOpportunity(db, opp_id) == Get(db.opportunities, opp_id)

\* get_score(resume_id, opp_id) on a loaded scores file.
GetScore(db, resume_id, opp_id) ==
    Get(IF resume_id \in DOMAIN db.scores THEN db.scores[resume_id] ELSE EmptyDict,
        opp_id)

\* Mutant of save_score: the resume's row is replaced by the new Score, the
\* Scores it had for other opportunities are dropped.
SaveScore_ReplaceRow(db, resume_id, opp_id, score_data, now) ==
    [scores |-> Put(db.scores, resume_id,
                    Put(EmptyDict, opp_id, Put(score_data, "scored_at", now)))]

\* Mutant of save_score: the new data is merged into the stored record
\* (dict.update) instead of replacing it.
SaveScore_Merge(db, resume_id, opp_id, score_data, now) ==
    LET row == IF resume_id \in DOMAIN db.scores THEN db.scores[resume_id] ELSE EmptyDict
        old == IF opp_id \in DOMAIN row THEN row[opp_id] ELSE EmptyDict
        new == [k \in (DOMAIN old) \cup (DOMAIN score_data) \cup {"scored_at"} |->
                   IF k = "scored_at" THEN now
                   ELSE IF k \in DOMAIN score_data THEN score_data[k] ELSE old[k]]
    IN [scores |-> Put(db.scores, resume_id, Put(row, opp_id, new))]

\* save_score(resume_id, opp_id, score_data): the scores file afterwards.
\* The record stored is {**score_data, 'scored_at': now}.
SaveScore(db, resume_id, opp_id, score_data, now) ==
    LET row == IF resume_id \in DOMAIN db.scores THEN db.scores[resume_id] ELSE EmptyDict
    IN [scores |-> Put(db.scores, resume_id,
                       Put(row, opp_id, Put(score_data, "scored_at", now)))]

\* The pairs that have a Score, as <<resume_id, opp_id>>.
ScoredPairs(db) ==
    UNION {{<<r, o>> : o \in DOMAIN db.scores[r]} : r \in DOMAIN db.scores}

\* Mutant of update_metadata: total_scores counts the resumes that have
\* Scores instead of the Scores.
UpdateMetadata_CountResumes(now, fault) ==
    IF \E f \in {"resumes", "opportunities", "scores"} : Fails(fault, f, "load")
    THEN [metadata |-> None, raised |-> "StorageError", writes |-> <<>>]
    ELSE IF Fails(fault, "metadata", "save")
    THEN [metadata |-> None, raised |-> "StorageError", writes |-> <<>>]
    ELSE [metadata |-> [last_check |-> now,
                        total_resumes |-> Cardinality(DOMAIN resumes_db.resumes),
                        total_opportunities |->
                            Cardinality(DOMAIN opportunities_db.opportunities),
                        total_scores |-> Cardinality(DOMAIN scores_db.scores)],
          raised |-> "none", writes |-> <<"metadata">>]

\* sum(len(scores) for scores in scores_db['scores'].values())
RECURSIVE SumOfLens(_, _)
SumOfLens(ids, scores) ==
    IF ids = <<>> THEN 0
    ELSE Cardinality(DOMAIN scores[Head(ids)]) + SumOfLens(Tail(ids), scores)

\* update_metadata() at time now: the metadata file written, the exception,
\* and the files saved.
UpdateMetadata(now, fault) ==
    IF \E f \in {"resumes", "opportunities", "scores"} : Fails(fault, f, "load")
    THEN [metadata |-> None, raised |-> "StorageError", writes |-> <<>>]
    ELSE IF Fails(fault, "metadata", "save")
    THEN [metadata |-> None, raised |-> "StorageError", writes |-> <<>>]
    ELSE [metadata |-> [last_check |-> now,
                        total_resumes |-> Cardinality(DOMAIN resumes_db.resumes),
                        total_opportunities |->
                            Cardinality(DOMAIN opportunities_db.opportunities),
                        total_scores |-> SumOfLens(Keys(scores_db.scores), scores_db.scores)],
          raised |-> "none", writes |-> <<"metadata">>]

(******************************* FileMonitor *******************************)

\* TextProcessor.find_email(text) / find_phone(text) on the text of a resume
\* file: the first match, or None. The text of alice.txt holds an address and
\* a number, the text of bob.txt neither. scan_for_new_resumes puts both
\* values into the dict get_resume returned and saves nothing, so the scan
\* below has no step for them.
FindEmail(filename) ==
    IF filename = "alice.txt" THEN [s |-> "alice@example.org"] ELSE None

FindPhone(filename) ==
    IF filename = "alice.txt" THEN [s |-> "(555) 010-2030"] ELSE None


\* ResumeReader.read_file outcomes. FileNotFoundError is not a FileReadError.
ReadOutcomes == {"ok", "FileReadError", "FileNotFoundError"}

\* Folder listings (iterdir order is arbitrary): the sequences of distinct names.
RECURSIVE Listings(_)
Listings(files) ==
    {<<>>} \cup UNION {{<<f>> \o l : l \in Listings(files \ {f})} : f \in files}

\* The outcome of a scan: the collection afterwards, new_resume_ids, the
\* exception, the files saved, whether a store call raised StorageError, and
\* the ids under which register_* wrote a record.
ScanOutcome(db, ids, raised, writes, ioerr) ==
    [db |-> db, ids |-> ids, raised |-> raised, writes |-> writes, ioerr |-> ioerr,
     registered |-> <<>>]

\* The loop of scan_for_new_resumes over the folder's files.
RECURSIVE ScanResumesLoop(_, _, _, _, _)
ScanResumesLoop(acc, files, existing_filenames, read, fault) ==
    IF files = <<>> \/ acc.raised # "none" THEN acc
    ELSE LET f == Head(files)
             rest == Tail(files)
             reg == RegisterResume(acc.db, f, fault)
         IN IF f \in existing_filenames
            THEN ScanResumesLoop(acc, rest, existing_filenames, read, fault)
            ELSE IF read[f] = "FileNotFoundError"
            THEN [acc EXCEPT !.raised = "FileNotFoundError"]
            ELSE IF read[f] = "FileReadError"
            THEN ScanResumesLoop(acc, rest, existing_filenames, read, fault)
            ELSE IF reg.raised = "StorageError"
            THEN ScanResumesLoop([acc EXCEPT !.ioerr = TRUE],
                                 rest, existing_filenames, read, fault)
            ELSE IF Fails(fault, "resumes", "load")   \* get_resume after registering
            THEN ScanResumesLoop([acc EXCEPT !.db = reg.db,
                                             !.registered =
                                                 IF reg.writes # <<>>
                                                 THEN Append(@, reg.ret) ELSE @,
                                             !.writes = @ \o reg.writes,
                                             !.ioerr = TRUE],
                                 rest, existing_filenames, read, fault)
            ELSE ScanResumesLoop([acc EXCEPT !.db = reg.db,
                                             !.ids = Append(@, reg.ret),
                                             !.registered =
                                                 IF reg.writes # <<>>
                                                 THEN Append(@, reg.ret) ELSE @,
                                             !.writes = @ \o reg.writes],
                                 rest, existing_filenames, read, fault)

\* scan_for_new_resumes(): files is the folder listing, read the outcome of
\* read_file for every file name.
ScanForNewResumes(db, files, read, fault) ==
    IF Fails(fault, "resumes", "load")
    THEN ScanOutcome(db, <<>>, "StorageError", <<>>, TRUE)
    ELSE ScanResumesLoop(ScanOutcome(db, <<>>, "none", <<>>, FALSE), files,
                         {db.resumes[id].filename : id \in DOMAIN db.resumes},
                         read, fault)

\* The loop of scan_for_new_opportunities.
RECURSIVE ScanOpportunitiesLoop(_, _, _, _, _)
ScanOpportunitiesLoop(acc, files, existing_filenames, read, fault) ==
    IF files = <<>> \/ acc.raised # "none" THEN acc
    ELSE LET f == Head(files)
             rest == Tail(files)
             reg == RegisterOpportunity(acc.db, f, fault)
         IN IF f \in existing_filenames
            THEN ScanOpportunitiesLoop(acc, rest, existing_filenames, read, fault)
            ELSE IF read[f] = "FileNotFoundError"
            THEN [acc EXCEPT !.raised = "FileNotFoundError"]
            ELSE IF read[f] = "FileReadError"
            THEN ScanOpportunitiesLoop(acc, rest, existing_filenames, read, fault)
            ELSE IF reg.raised = "StorageError"
            THEN ScanOpportunitiesLoop([acc EXCEPT !.ioerr = TRUE],
                                       rest, existing_filenames, read, fault)
            ELSE ScanOpportunitiesLoop([acc EXCEPT !.db = reg.db,
                                                   !.ids = Append(@, reg.ret),
                                                   !.registered =
                                                 IF reg.writes # <<>>
                                                 THEN Append(@, reg.ret) ELSE @,
                                                   !.writes = @ \o reg.writes],
                                       rest, existing_filenames, read, fault)

\* scan_for_new_opportunities()
ScanForNewOpportunities(db, files, read, fault) ==
    IF Fails(fault, "opportunities", "load")
    THEN ScanOutcome(db, <<>>, "StorageError", <<>>, TRUE)
    ELSE ScanOpportunitiesLoop(ScanOutcome(db, <<>>, "none", <<>>, FALSE), files,
                               {db.opportunities[id].filename :
                                   id \in DOMAIN db.opportunities},
                               read, fault)

(***************************** IncrementalScorer ***************************)

\* Values of a JSON payload before int(): a number, or a non-numeric string.
JInt(n) == [t |-> "int", n |-> n]
JStr(x) == [t |-> "str", s |-> x]

\* int(x): the integer, or a ValueError.
PyIntOk(x) == x.t = "int"
PyInt(x) == x.n

\* What the oracle can answer: the API call raises; the text is not JSON;
\* or a JSON object (a dict of raw values).
ApiError == [kind |-> "api_error"]
NotJson == [kind |-> "text"]
Json(data) == [kind |-> "json", data |-> data]

LowPayload ==
    [overall |-> JInt(60), skills_match |-> JInt(55), experience_match |-> JInt(50),
     education_match |-> JInt(65), grade |-> "D", recommendation |-> "Not Recommended",
     key_strength |-> "reliable", concerns |-> "little experience"]

\* No education_match and no concerns: both are optional in the response.
HighPayload ==
    [overall |-> JInt(88), skills_match |-> JInt(90), experience_match |-> JInt(85),
     grade |-> "B+", recommendation |-> "Recommended", key_strength |-> "tutoring"]

\* key_strength is missing.
MissingFieldPayload ==
    [overall |-> JInt(88), skills_match |-> JInt(90), experience_match |-> JInt(85),
     grade |-> "B+", recommendation |-> "Recommended"]

\* overall is a string that int() rejects.
NonIntegerPayload ==
    [overall |-> JStr("high"), skills_match |-> JInt(90), experience_match |-> JInt(85),
     grade |-> "B+", recommendation |-> "Recommended", key_strength |-> "tutoring"]

GoodResponses == {Json(LowPayload), Json(HighPayload)}
BadResponses == {ApiError, NotJson, Json(MissingFieldPayload), Json(NonIntegerPayload)}
Responses == GoodResponses \cup BadResponses

required_fields ==
    {"overall", "skills_match", "experience_match", "grade", "recommendation",
     "key_strength"}

\* Mutant of _call_openai_scoring: the required fields are not checked, a
\* missing one is left out of the result.
CallOpenaiScoring_NoRequiredCheck(resp) ==
    IF resp.kind # "json"
    THEN [raised |-> "ScoringError", score_data |-> None]
    ELSE LET d == resp.data
             ints == {"overall", "skills_match", "experience_match", "education_match"}
         IN IF \E k \in ints \cap DOMAIN d : ~PyIntOk(d[k])
            THEN [raised |-> "ScoringError", score_data |-> None]
            ELSE [raised |-> "none",
                  score_data |-> [k \in DOMAIN d |->
                                     IF k \in ints THEN PyInt(d[k]) ELSE d[k]]]

\* _call_openai_scoring(resume_text, job_description): every failure leaves
\* as ScoringError (the two except clauses), success returns the parsed dict
\* with the four scores converted by int() and education_match defaulted to 50.
CallOpenaiScoring(resp) ==
    IF resp.kind # "json"
    THEN [raised |-> "ScoringError", score_data |-> None]
    ELSE IF ~(required_fields \subseteq DOMAIN resp.data)
    THEN [raised |-> "ScoringError", score_data |-> None]
    ELSE LET d == resp.data
             edu == IF "education_match" \in DOMAIN d THEN d.education_match ELSE JInt(50)
         IN IF ~(PyIntOk(d.overall) /\ PyIntOk(d.skills_match)
                   /\ PyIntOk(d.experience_match) /\ PyIntOk(edu))
            THEN [raised |-> "ScoringError", score_data |-> None]
            ELSE [raised |-> "none",
                  score_data |->
                      [k \in (DOMAIN d) \cup {"education_match"} |->
                          CASE k = "overall" -> PyInt(d.overall)
                            [] k = "skills_match" -> PyInt(d.skills_match)
                            [] k = "experience_match" -> PyInt(d.experience_match)
                            [] k = "education_match" -> PyInt(edu)
                            [] OTHER -> d[k]]]

\* The outcome of a scorer operation: the scores file and the clock
\* afterwards, the value returned (None when it raised), the exception, the
\* oracle invocations (pair and answer, in order), the files saved, whether a
\* store call raised StorageError, the pairs a batch logged as failed
\* (logger.error), and the progress counter.
ScoreOutcome(db, now, ret, raised, calls, writes, ioerr, errors, completed) ==
    [db |-> db, clock |-> now, ret |-> ret, raised |-> raised, calls |-> calls,
     writes |-> writes, ioerr |-> ioerr, errors |-> errors, completed |-> completed]

\* The state in which an operation is entered.
Enter(db, now, ret) == ScoreOutcome(db, now, ret, "none", <<>>, <<>>, FALSE, <<>>, 0)

\* st with the exception raised out of the operation.
Raise(st, exc, ioerr) ==
    [st EXCEPT !.ret = None, !.raised = exc, !.ioerr = @ \/ ioerr]

\* Mutant of the scoring path: when the oracle fails, the Score the pair had
\* is removed from the scores file.
ScoreUncached_DropsOnFailure(st, resume_id, opp_id, resp, fault) ==
    IF Fails(fault, "resumes", "load") \/ Fails(fault, "opportunities", "load")
    THEN Raise(st, "StorageError", TRUE)
    ELSE LET resume == GetResume(resumes_db, resume_id)
             opportunity == GetOpportunity(opportunities_db, opp_id)
             called == CallOpenaiScoring(resp)
             asked == [st EXCEPT !.calls = Append(@, [pair |-> <<resume_id, opp_id>>,
                                                       resp |-> resp])]
             score_data == [k \in (DOMAIN called.score_data)
                                    \cup {"resume_id", "opp_id", "filename"} |->
                               CASE k = "resume_id" -> resume_id
                                 [] k = "opp_id" -> opp_id
                                 [] k = "filename" -> resume.filename
                                 [] OTHER -> called.score_data[k]]
         IN IF resume = None \/ opportunity = None
            THEN Raise(st, "ScoringError", FALSE)
            ELSE IF called.raised # "none"
            THEN Raise([asked EXCEPT
                           !.db.scores = [r \in DOMAIN @ |->
                                             IF r = resume_id
                                             THEN Restrict(@[r], DOMAIN @[r] \ {opp_id})
                                             ELSE @[r]],
                           !.writes = Append(@, "scores")],
                       "ScoringError", FALSE)
            ELSE IF Fails(fault, "scores", "load") \/ Fails(fault, "scores", "save")
            THEN Raise(asked, "ScoringError", TRUE)       \* StorageError, wrapped
            ELSE [asked EXCEPT
                     !.db = SaveScore(st.db, resume_id, opp_id, score_data, st.clock + 1),
                     !.clock = st.clock + 1,
                     !.writes = Append(@, "scores"),
                     !.ret = score_data]

\* Mutant of score_resume_for_opportunity past the cache check: the loaded
\* resume and opportunity are not looked at, a missing one is scored as well.
ScoreUncached_NoEntityCheck(st, resume_id, opp_id, resp, fault) ==
    IF Fails(fault, "resumes", "load") \/ Fails(fault, "opportunities", "load")
    THEN Raise(st, "StorageError", TRUE)
    ELSE LET resume == GetResume(resumes_db, resume_id)
             called == CallOpenaiScoring(resp)
             asked == [st EXCEPT !.calls = Append(@, [pair |-> <<resume_id, opp_id>>,
                                                       resp |-> resp])]
             score_data == [k \in (DOMAIN called.score_data)
                                    \cup {"resume_id", "opp_id", "filename"} |->
                               CASE k = "resume_id" -> resume_id
                                 [] k = "opp_id" -> opp_id
                                 [] k = "filename" -> IF resume = None THEN None
                                                      ELSE resume.filename
                                 [] OTHER -> called.score_data[k]]
         IN IF called.raised # "none"
            THEN Raise(asked, "ScoringError", FALSE)
            ELSE IF Fails(fault, "scores", "load") \/ Fails(fault, "scores", "save")
            THEN Raise(asked, "ScoringError", TRUE)
            ELSE [asked EXCEPT
                     !.db = SaveScore(st.db, resume_id, opp_id, score_data, st.clock + 1),
                     !.clock = st.clock + 1,
                     !.writes = Append(@, "scores"),
                     !.ret = score_data]

\* score_resume_for_opportunity past the cache check: both entities are
\* loaded, the oracle is asked for resp, the Score is saved and returned.
ScoreUncached(st, resume_id, opp_id, resp, fault) ==
    IF Fails(fault, "resumes", "load") \/ Fails(fault, "opportunities", "load")
    THEN Raise(st, "StorageError", TRUE)
    ELSE LET resume == GetResume(resumes_db, resume_id)
             opportunity == GetOpportunity(opportunities_db, opp_id)
             called == CallOpenaiScoring(resp)
             asked == [st EXCEPT !.calls = Append(@, [pair |-> <<resume_id, opp_id>>,
                                                       resp |-> resp])]
             score_data == [k \in (DOMAIN called.score_data)
                                    \cup {"resume_id", "opp_id", "filename"} |->
                               CASE k = "resume_id" -> resume_id
                                 [] k = "opp_id" -> opp_id
                                 [] k = "filename" -> resume.filename
                                 [] OTHER -> called.score_data[k]]
         IN IF resume = None \/ opportunity = None
            THEN Raise(st, "ScoringError", FALSE)
            ELSE IF called.raised # "none"
            THEN Raise(asked, "ScoringError", FALSE)
            ELSE IF Fails(fault, "scores", "load") \/ Fails(fault, "scores", "save")
            THEN Raise(asked, "ScoringError", TRUE)       \* StorageError, wrapped
            ELSE [asked EXCEPT
                     !.db = SaveScore(st.db, resume_id, opp_id, score_data, st.clock + 1),
                     !.clock = st.clock + 1,
                     !.writes = Append(@, "scores"),
                     !.ret = score_data]

\* Mutant of score_resume_for_opportunity: resume_needs_scoring is not asked,
\* the pair is always scored.
ScoreResumeForOpportunity_NoCache(st, resume_id, opp_id, force, resp, fault) ==
    ScoreUncached(st, resume_id, opp_id, resp, fault)

\* Mutant of score_resume_for_opportunity: force is ignored, a stored Score
\* is always returned.
ScoreResumeForOpportunity_IgnoreForce(st, resume_id, opp_id, force, resp, fault) ==
    IF GetScore(st.db, resume_id, opp_id) # None
    THEN [st EXCEPT !.ret = GetScore(st.db, resume_id, opp_id)]
    ELSE ScoreUncached(st, resume_id, opp_id, resp, fault)

\* score_resume_for_opportunity(resume_id, opp_id, force), entered in st,
\* with resp the oracle's answer should it be asked.
ScoreResumeForOpportunity(st, resume_id, opp_id, force, resp, fault) ==
    IF ~force /\ Fails(fault, "scores", "load")           \* resume_needs_scoring
    THEN Raise(st, "StorageError", TRUE)
    ELSE IF ~force /\ GetScore(st.db, resume_id, opp_id) # None
    THEN [st EXCEPT !.ret = GetScore(st.db, resume_id, opp_id)]
    ELSE ScoreUncached(st, resume_id, opp_id, resp, fault)

\* The oracle's behaviour during one batch: one answer for every pair, or
\* the same good answer for every pair but one.
Oracles(pairs) ==
    {[p \in pairs |-> r0] : r0 \in Responses}
      \cup {[p \in pairs |-> IF p = sp THEN r1 ELSE Json(HighPayload)] :
               sp \in pairs, r1 \in Responses}

\* dict.get('overall', 0) of a stored Score.
OverallOf(score) == IF "overall" \in DOMAIN score THEN score.overall ELSE 0

\* Mutant of the loop body of score_all_for_opportunity: no look at the
\* existing Score, every resume is scored again.
ScoreAllItem_NoReuse(st, resume_id, opp_id, force, resp, fault) ==
    LET one == ScoreResumeForOpportunity([st EXCEPT !.ret = None],
                                         resume_id, opp_id, TRUE, resp, fault)
    IN IF one.raised = "ScoringError"
       THEN [one EXCEPT !.ret = st.ret, !.raised = "none",
                        !.errors = Append(@, <<resume_id, opp_id>>)]
       ELSE [one EXCEPT !.ret = Append(st.ret, one.ret)]

\* Mutant: a ScoringError ends the batch instead of being logged.
ScoreAllItem_Abort(st, resume_id, opp_id, force, resp, fault) ==
    LET existing == GetScore(st.db, resume_id, opp_id)
        one == ScoreResumeForOpportunity([st EXCEPT !.ret = None],
                                         resume_id, opp_id, force, resp, fault)
    IN IF ~force /\ existing # None /\ OverallOf(existing) < Threshold
       THEN [st EXCEPT !.ret = Append(@, existing)]
       ELSE IF one.raised # "none"
       THEN one
       ELSE [one EXCEPT !.ret = Append(st.ret, one.ret)]

\* The loop body of score_all_for_opportunity for one resume: st.ret is the
\* list built so far.
ScoreAllItem(st, resume_id, opp_id, force, resp, fault) ==
    LET existing == GetScore(st.db, resume_id, opp_id)
        one == ScoreResumeForOpportunity([st EXCEPT !.ret = None],
                                         resume_id, opp_id, force, resp, fault)
    IN IF ~force /\ Fails(fault, "scores", "load")         \* get_score: not caught
       THEN Raise(st, "StorageError", TRUE)
       ELSE IF ~force /\ existing # None /\ OverallOf(existing) < Threshold
       THEN [st EXCEPT !.ret = Append(@, existing)]
       ELSE IF one.raised = "StorageError"
       THEN one
       ELSE IF one.raised = "ScoringError"                 \* logged, continue
       THEN [one EXCEPT !.ret = st.ret, !.raised = "none",
                        !.errors = Append(@, <<resume_id, opp_id>>)]
       ELSE IF one.ret # None
       THEN [one EXCEPT !.ret = Append(st.ret, one.ret)]
       ELSE [one EXCEPT !.ret = st.ret]

RECURSIVE ScoreAllLoop(_, _, _, _, _, _)
ScoreAllLoop(st, ids, opp_id, force, oracle, fault) ==
    IF ids = <<>> \/ st.raised # "none" THEN st
    ELSE ScoreAllLoop(ScoreAllItem(st, Head(ids), opp_id, force,
                                   oracle[<<Head(ids), opp_id>>], fault),
                      Tail(ids), opp_id, force, oracle, fault)

\* score_all_for_opportunity(opp_id, force)
ScoreAllForOpportunity(st, opp_id, force, oracle, fault) ==
    IF Fails(fault, "resumes", "load")                     \* get_all_resumes
    THEN Raise(st, "StorageError", TRUE)
    ELSE ScoreAllLoop([st EXCEPT !.ret = <<>>], Keys(resumes_db.resumes),
                      opp_id, force, oracle, fault)

\* The loop body of score_resume_for_all_opportunities for one opportunity.
ScoreForAllItem(st, resume_id, opp_id, force, resp, fault) ==
    LET one == ScoreResumeForOpportunity([st EXCEPT !.ret = None],
                                         resume_id, opp_id, force, resp, fault)
    IN IF one.raised = "StorageError"
       THEN one
       ELSE IF one.raised = "ScoringError"
       THEN [one EXCEPT !.ret = st.ret, !.raised = "none",
                        !.errors = Append(@, <<resume_id, opp_id>>)]
       ELSE IF one.ret # None
       THEN [one EXCEPT !.ret = Append(st.ret, one.ret)]
       ELSE [one EXCEPT !.ret = st.ret]

RECURSIVE ScoreForAllLoop(_, _, _, _, _, _)
ScoreForAllLoop(st, resume_id, ids, force, oracle, fault) ==
    IF ids = <<>> \/ st.raised # "none" THEN st
    ELSE ScoreForAllLoop(ScoreForAllItem(st, resume_id, Head(ids), force,
                                         oracle[<<resume_id, Head(ids)>>], fault),
                         resume_id, Tail(ids), force, oracle, fault)

\* score_resume_for_all_opportunities(resume_id, force)
ScoreResumeForAllOpportunities(st, resume_id, force, oracle, fault) ==
    IF Fails(fault, "opportunities", "load")               \* get_all_opportunities
    THEN Raise(st, "StorageError", TRUE)
    ELSE ScoreForAllLoop([st EXCEPT !.ret = <<>>], resume_id,
                         Keys(opportunities_db.opportunities), force, oracle, fault)

\* Mutant of the inner loop body of score_all_resumes_all_opportunities: a
\* stored Score at or above the threshold is not reused, the pair is scored
\* again.
AllPairsItem_RescoreAbove(st, resume_id, opp_id, force, resp, fault) ==
    LET existing == GetScore(st.db, resume_id, opp_id)
        one == ScoreUncached([st EXCEPT !.ret = None], resume_id, opp_id, resp, fault)
    IN IF ~force /\ Fails(fault, "scores", "load")
       THEN Raise(st, "StorageError", TRUE)
       ELSE IF ~force /\ existing # None /\ OverallOf(existing) < Threshold
       THEN [st EXCEPT !.ret[opp_id] = Append(@, existing), !.completed = @ + 1]
       ELSE IF one.raised = "StorageError"
       THEN one
       ELSE IF one.raised = "ScoringError"
       THEN [one EXCEPT !.ret = st.ret, !.raised = "none",
                        !.errors = Append(@, <<resume_id, opp_id>>),
                        !.completed = @ + 1]
       ELSE [one EXCEPT !.ret = [st.ret EXCEPT ![opp_id] = Append(@, one.ret)],
                        !.completed = @ + 1]

\* The inner loop body of score_all_resumes_all_opportunities: st.ret is
\* results_by_opp, st.completed the progress counter.
AllPairsItem(st, resume_id, opp_id, force, resp, fault) ==
    LET existing == GetScore(st.db, resume_id, opp_id)
        one == ScoreResumeForOpportunity([st EXCEPT !.ret = None],
                                         resume_id, opp_id, force, resp, fault)
    IN IF ~force /\ Fails(fault, "scores", "load")
       THEN Raise(st, "StorageError", TRUE)
       ELSE IF ~force /\ existing # None       \* below the threshold or not: reused
       THEN [st EXCEPT !.ret[opp_id] = Append(@, existing), !.completed = @ + 1]
       ELSE IF one.raised = "StorageError"
       THEN one
       ELSE IF one.raised = "ScoringError"
       THEN [one EXCEPT !.ret = st.ret, !.raised = "none",
                        !.errors = Append(@, <<resume_id, opp_id>>),
                        !.completed = @ + 1]
       ELSE IF one.ret # None
       THEN [one EXCEPT !.ret = [st.ret EXCEPT ![opp_id] = Append(@, one.ret)],
                        !.completed = @ + 1]
       ELSE [one EXCEPT !.ret = st.ret, !.completed = @ + 1]

\* The pairs in the order of the two nested loops: opportunities outside.
PairOrder(resume_ids, opp_ids) ==
    [i \in 1..(Len(resume_ids) * Len(opp_ids)) |->
        <<resume_ids[((i - 1) % Len(resume_ids)) + 1],
          opp_ids[((i - 1) \div Len(resume_ids)) + 1]>>]

RECURSIVE AllPairsLoop(_, _, _, _, _)
AllPairsLoop(st, pairs, force, oracle, fault) ==
    IF pairs = <<>> \/ st.raised # "none" THEN st
    ELSE AllPairsLoop(AllPairsItem(st, Head(pairs)[1], Head(pairs)[2], force,
                                   oracle[Head(pairs)], fault),
                      Tail(pairs), force, oracle, fault)

\* score_all_resumes_all_opportunities(force)
ScoreAllResumesAllOpportunities(st, force, oracle, fault) ==
    IF Fails(fault, "resumes", "load") \/ Fails(fault, "opportunities", "load")
    THEN Raise(st, "StorageError", TRUE)
    ELSE AllPairsLoop([st EXCEPT !.ret = [o \in DOMAIN opportunities_db.opportunities
                                             |-> <<>>]],
                      PairOrder(Keys(resumes_db.resumes),
                                Keys(opportunities_db.opportunities)),
                      force, oracle, fault)

(************************ grades and the Django path ***********************)

\* The prompt's range of a score: <integer 0-100>.
ScoreMax == 100

\* The grades of the response format: <A+, A, B+, B, C+, C, D, or F>.
Grades == {"A+", "A", "B+", "B", "C+", "C", "D", "F"}

\* fix_grades Command.calculate_grade(score)
CalculateGrade(score) ==
    IF score >= 95 THEN "A+"
    ELSE IF score >= 90 THEN "A"
    ELSE IF score >= 85 THEN "B+"
    ELSE IF score >= 80 THEN "B"
    ELSE IF score >= 75 THEN "C+"
    ELSE IF score >= 70 THEN "C"
    ELSE IF score >= 65 THEN "D"
    ELSE "F"

\* A ResumeScore row with the model's field defaults.
ResumeScoreDefaults ==
    [overall_score |-> 0, skills_score |-> 0, experience_score |-> 0,
     education_score |-> 0, skills_match |-> 0, experience_match |-> 0,
     education_match |-> 0, grade |-> "", recommendation |-> "",
     key_strength |-> "", concerns |-> ""]

\* The grade ResumeScore.save derives from overall_score.
ResumeScoreGrade(overall_score) ==
    IF overall_score >= 98 THEN "A+"
    ELSE IF overall_score >= 94 THEN "A"
    ELSE IF overall_score >= 90 THEN "A-"
    ELSE IF overall_score >= 85 THEN "B+"
    ELSE IF overall_score >= 80 THEN "B"
    ELSE IF overall_score >= 74 THEN "B-"
    ELSE IF overall_score >= 68 THEN "C+"
    ELSE IF overall_score >= 62 THEN "C"
    ELSE IF overall_score >= 56 THEN "C-"
    ELSE IF overall_score >= 50 THEN "D+"
    ELSE IF overall_score >= 44 THEN "D"
    ELSE IF overall_score >= 40 THEN "D-"
    ELSE "F"

\* ResumeScore.save(): the row written. The *_score fields are filled from
\* the *_match fields when they are 0, the grade is set from overall_score.
ResumeScoreSave(obj) ==
    [obj EXCEPT
        !.skills_score = IF obj.skills_match # 0 /\ @ = 0 THEN obj.skills_match ELSE @,
        !.experience_score =
            IF obj.experience_match # 0 /\ @ = 0 THEN obj.experience_match ELSE @,
        !.education_score =
            IF obj.education_match # 0 /\ @ = 0 THEN obj.education_match ELSE @,
        !.grade = ResumeScoreGrade(obj.overall_score)]

\* fix_grades Command.fix_single_grade(score_obj, dry_run): the row
\* afterwards and the counter that was advanced. The grade assigned from
\* calculate_grade goes through ResumeScore.save(update_fields=['grade']).
FixSingleGrade(score_obj, dry_run) ==
    LET correct_grade == CalculateGrade(score_obj.overall_score)
    IN IF score_obj.grade = correct_grade
       THEN [obj |-> score_obj, stat |-> "unchanged", writes |-> <<>>]
       ELSE IF dry_run
       THEN [obj |-> score_obj, stat |-> "updated", writes |-> <<>>]
       ELSE [obj |-> ResumeScoreSave([score_obj EXCEPT !.grade = correct_grade]),
             stat |-> "updated", writes |-> <<"resume_scores">>]

\* ResumeScoringService._parse_scoring_response(response_text): the parsed
\* JSON, or the default values when the text is not JSON.
ParseScoringResponse(resp) ==
    IF resp.kind = "json" THEN resp.data
    ELSE [overall |-> JInt(0), skills_match |-> JInt(0), experience_match |-> JInt(0),
          education_match |-> JInt(0), grade |-> "F",
          recommendation |-> "Not Recommended",
          key_strength |-> "Error parsing response", concerns |-> "Failed to score"]

\* recommendation_map.get(score_data.get('recommendation', 'Consider'), 'consider')
MapRecommendation(score_data) ==
    LET r == IF "recommendation" \in DOMAIN score_data
             THEN score_data.recommendation ELSE "Consider"
    IN CASE r = "Highly Recommended" -> "highly_recommended"
         [] r = "Recommended" -> "recommended"
         [] r = "Not Recommended" -> "not_recommended"
         [] OTHER -> "consider"

\* score_data.get(key, default)
GetOr(score_data, key, default) ==
    IF key \in DOMAIN score_data THEN score_data[key] ELSE default

\* ResumeScoringService.score_resume_for_opportunity(resume, opportunity,
\* force), with existing the pair's ResumeScore row (None when there is none)
\* and resp the oracle's answer: the value returned, the oracle invocations,
\* the table written and the row left in it. Every exception is caught and
\* logged, and None is returned.
ServiceScoreResumeForOpportunity(existing, force, resp) ==
    LET asked == <<[pair |-> <<1, 1>>, resp |-> resp]>>
        score_data == ParseScoringResponse(resp)
        ints == [overall_score |-> GetOr(score_data, "overall", JInt(0)),
                 skills_match |-> GetOr(score_data, "skills_match", JInt(0)),
                 experience_match |-> GetOr(score_data, "experience_match", JInt(0)),
                 education_match |-> GetOr(score_data, "education_match", JInt(0))]
        base == IF existing = None THEN ResumeScoreDefaults ELSE existing
        row == ResumeScoreSave(
                   [base EXCEPT !.overall_score = PyInt(ints.overall_score),
                                !.skills_match = PyInt(ints.skills_match),
                                !.experience_match = PyInt(ints.experience_match),
                                !.education_match = PyInt(ints.education_match),
                                !.grade = GetOr(score_data, "grade", "F"),
                                !.recommendation = MapRecommendation(score_data),
                                !.key_strength = GetOr(score_data, "key_strength", ""),
                                !.concerns = GetOr(score_data, "concerns", "")])
    IN IF ~force /\ existing # None
       THEN [ret |-> existing, raised |-> "none", calls |-> <<>>, writes |-> <<>>,
             row |-> existing]
       ELSE IF resp = ApiError \/ \E f \in DOMAIN ints : ~PyIntOk(ints[f])
       THEN [ret |-> None, raised |-> "none", calls |-> asked, writes |-> <<>>,
             row |-> existing]
       ELSE [ret |-> row, raised |-> "none", calls |-> asked,
             writes |-> <<"resume_scores">>, row |-> row]

\* The pair's row before a call: none, or one an earlier call has saved.
ExistingRows ==
    {None,
     ServiceScoreResumeForOpportunity(None, FALSE, Json(HighPayload)).row}

(*********************** two callers on the same store *********************)

\* Two calls, each a load_json followed by a save_json, from two threads or
\* processes: the orders in which their four file accesses can happen.
Schedules ==
    {sched \in [1..4 -> {1, 2}] : Cardinality({i \in 1..4 : sched[i] = 1}) = 2}

\* Nothing in StorageManager excludes another caller between the load and the
\* save. st is the file, what each caller has loaded (None before its load)
\* and what each call returned.
Concurrent(file) == [file |-> file, loaded |-> <<None, None>>, ret |-> <<None, None>>]

\* Two save_score calls run under a schedule: a caller's first access loads
\* the scores file, its second saves what it loaded with its Score put in.
RECURSIVE SaveScoreSteps(_, _, _, _)
SaveScoreSteps(st, sched, calls, now) ==
    IF sched = <<>> THEN st
    ELSE LET t == Head(sched)
             c == calls[t]
         IN SaveScoreSteps(
                IF st.loaded[t] = None
                THEN [st EXCEPT !.loaded[t] = st.file]
                ELSE [st EXCEPT !.file = SaveScore(st.loaded[t], c.resume_id, c.opp_id,
                                                   c.score_data, now)],
                Tail(sched), calls, now)

\* Two register_resume calls run under a schedule: the duplicate check and
\* the new id come from what the caller loaded.
RECURSIVE RegisterResumeSteps(_, _, _)
RegisterResumeSteps(st, sched, filenames) ==
    IF sched = <<>> THEN st
    ELSE LET t == Head(sched)
             reg == RegisterResume(st.loaded[t], filenames[t], NoFault)
         IN RegisterResumeSteps(
                IF st.loaded[t] = None
                THEN [st EXCEPT !.loaded[t] = st.file]
                ELSE [st EXCEPT !.file = IF reg.writes # <<>> THEN reg.db ELSE @,
                                !.ret[t] = reg.ret],
                Tail(sched), filenames)

(****************************** ResultsGenerator ***************************)

\* The stored Scores and resumes a report is drawn from go up to MaxCandidates.
MaxCandidates == 12

\* sorted_candidates[:10]
TopN == 10

\* get_opportunity_scores(opp_id): resume_id -> Score, for the resumes that
\* have a Score for the opportunity.
GetOpportunityScores(db, opp_id) ==
    [r \in {x \in DOMAIN db.scores : opp_id \in DOMAIN db.scores[x]} |->
        db.scores[r][opp_id]]

\* The entry of one candidate in a report.
CandidateEntry(resume_id, resume, score_data) ==
    [resume_id |-> resume_id,
     filename |-> resume.filename,
     email |-> Get(resume, "email"),
     phone |-> Get(resume, "phone"),
     overall_score |-> Get(score_data, "overall"),
     skills_match |-> Get(score_data, "skills_match"),
     experience_match |-> Get(score_data, "experience_match"),
     education_match |-> Get(score_data, "education_match"),
     grade |-> Get(score_data, "grade"),
     recommendation |-> Get(score_data, "recommendation"),
     key_strength |-> Get(score_data, "key_strength"),
     concerns |-> GetOr(score_data, "concerns", "None")]

\* The loop over scores.items(): an entry for every Score whose resume is
\* still in the store.
RECURSIVE BuildCandidates(_, _)
BuildCandidates(ids, scores) ==
    IF ids = <<>> THEN <<>>
    ELSE LET resume == GetResume(resumes_db, Head(ids))
             rest == BuildCandidates(Tail(ids), scores)
         IN IF resume = None THEN rest
            ELSE <<CandidateEntry(Head(ids), resume, scores[Head(ids)])>> \o rest

\* sorted(candidates, key=overall_score, reverse=True): descending and
\* stable, equal scores keep the order of the input.
RECURSIVE SortedByScore(_)
SortedByScore(candidates) ==
    IF candidates = <<>> THEN <<>>
    ELSE LET i == CHOOSE i \in 1..Len(candidates) :
                     /\ \A j \in 1..Len(candidates) :
                           candidates[j].overall_score <= candidates[i].overall_score
                     /\ \A j \in 1..(i - 1) :
                           candidates[j].overall_score < candidates[i].overall_score
         IN <<candidates[i]>>
              \o SortedByScore(SubSeq(candidates, 1, i - 1)
                                 \o SubSeq(candidates, i + 1, Len(candidates)))

\* sum(c['overall_score'] for c in candidates)
RECURSIVE SumOfScores(_)
SumOfScores(candidates) ==
    IF candidates = <<>> THEN 0
    ELSE Head(candidates).overall_score + SumOfScores(Tail(candidates))

\* Mutant of the slice: the list is not cut.
Prefix_NoCut(seq, n) == seq

\* seq[:n]
Prefix(seq, n) == SubSeq(seq, 1, IF Len(seq) < n THEN Len(seq) ELSE n)

\* generate_opportunity_report(opp_id) at time now: the dict returned and the
\* exception. The average, a true division, is kept as its numerator and
\* denominator.
GenerateOpportunityReport(opp_id, now, fault) ==
    LET opportunity == GetOpportunity(opportunities_db, opp_id)
        scores == GetOpportunityScores(scores_db, opp_id)
        candidates == BuildCandidates(Keys(scores), scores)
        sorted_candidates == SortedByScore(candidates)
    IN IF Fails(fault, "opportunities", "load")
       THEN [ret |-> None, raised |-> "StorageError"]
       ELSE IF opportunity = None
       THEN [ret |-> [error |-> opp_id], raised |-> "none"]
       ELSE IF Fails(fault, "scores", "load")
                 \/ (DOMAIN scores # {} /\ Fails(fault, "resumes", "load"))
       THEN [ret |-> None, raised |-> "StorageError"]
       ELSE [ret |->
               [opportunity |-> [id |-> opp_id,
                                 position |-> opportunity.position,
                                 filename |-> opportunity.filename],
                statistics |->
                   [total_candidates |-> Len(candidates),
                    average_score |->
                        IF candidates # <<>>
                        THEN <<SumOfScores(candidates), Len(candidates)>> ELSE 0,
                    highest_score |->
                        IF sorted_candidates # <<>>
                        THEN sorted_candidates[1].overall_score ELSE 0,
                    lowest_score |->
                        IF sorted_candidates # <<>>
                        THEN sorted_candidates[Len(sorted_candidates)].overall_score
                        ELSE 0],
                top_10_candidates |-> Prefix(sorted_candidates, TopN),
                all_candidates |-> sorted_candidates,
                generated_at |-> now],
             raised |-> "none"]

\* _sanitize_filename(text, max_length=50), on the text as a sequence of
\* characters.
MaxFilenameLength == 50

InvalidChars == {"<", ">", ":", "\"", "/", "\\", "|", "?", "*"}

WhitespaceChars == {" ", "\n", "\r", "\t"}

\* The three replace() calls and the first re.sub: one character each.
ReplaceChar(c) ==
    IF c \in {"\n", "\r", "\t"} THEN " "
    ELSE IF c \in InvalidChars THEN "_"
    ELSE c

\* re.sub(r'[\s_]+', '_', text): every run of whitespace and underscores
\* becomes one underscore.
RECURSIVE CollapseRuns(_, _)
CollapseRuns(text, inRun) ==
    IF text = <<>> THEN <<>>
    ELSE IF Head(text) \in WhitespaceChars \cup {"_"}
    THEN (IF inRun THEN <<>> ELSE <<"_">>) \o CollapseRuns(Tail(text), TRUE)
    ELSE <<Head(text)>> \o CollapseRuns(Tail(text), FALSE)

\* text.strip('_')
RECURSIVE StripLeft(_)
StripLeft(text) ==
    IF text # <<>> /\ Head(text) = "_" THEN StripLeft(Tail(text)) ELSE text

RECURSIVE StripRight(_)
StripRight(text) ==
    IF text # <<>> /\ text[Len(text)] = "_"
    THEN StripRight(SubSeq(text, 1, Len(text) - 1)) ELSE text

SanitizeFilename(text) ==
    LET replaced == [i \in 1..Len(text) |-> ReplaceChar(text[i])]
        stripped == StripRight(StripLeft(CollapseRuns(replaced, FALSE)))
        cut == IF Len(stripped) > MaxFilenameLength
               THEN SubSeq(stripped, 1, MaxFilenameLength) ELSE stripped
    IN IF cut = <<>> THEN <<"u", "n", "n", "a", "m", "e", "d">> ELSE cut

\* The position titles _extract_position_from_text found in the opportunity
\* files, as characters.
PositionChars(position) ==
    CASE position = "tutor.txt" -> <<"M", "a", "t", "h", " ", " ", "T", "u", "t", "o", "r">>
      [] position = "coach.txt" -> <<"C", "o", "a", "c", "h", ":", " ", "U", "/", "1", "2", " ">>
      [] OTHER -> <<>>

\* f"opportunity_{opp_id}_{position_clean}.json"
ExportFilename(opp_id, position) ==
    <<"opportunity", opp_id, SanitizeFilename(PositionChars(position)), "json">>

\* The loop of export_all_opportunity_reports over the opportunities left to
\* do, on the directory dir (file name -> content): a report that is not an
\* error is written over whatever the file held; an exception ends the loop.
RECURSIVE ExportLoop(_, _, _, _)
ExportLoop(acc, ids, now, fault) ==
    IF ids = <<>> \/ acc.raised # "none" THEN acc
    ELSE LET opp_id == Head(ids)
             out == GenerateOpportunityReport(opp_id, now, fault)
             filename == ExportFilename(opp_id, opportunities_db.opportunities[opp_id].position)
         IN ExportLoop(IF out.raised # "none" THEN [acc EXCEPT !.raised = out.raised]
                       ELSE IF "error" \in DOMAIN out.ret THEN acc
                       ELSE [acc EXCEPT !.dir = Put(@, filename, out.ret),
                                        !.writes = Append(@, filename)],
                       Tail(ids), now, fault)

\* export_all_opportunity_reports(output_dir) on a directory holding dir.
ExportAllOpportunityReports(dir, now, fault) ==
    IF Fails(fault, "opportunities", "load")
    THEN [dir |-> dir, raised |-> "StorageError", writes |-> <<>>]
    ELSE ExportLoop([dir |-> dir, raised |-> "none", writes |-> <<>>],
                    Keys(opportunities_db.opportunities), now, fault)

(********************************* AutoScorer *******************************)

\* The two loops of process_new_files over the ids its scan returned: every
\* exception of a scoring call is logged and the loop goes on; st collects the
\* oracle calls and the files saved.
RECURSIVE ScoreNewResumes(_, _, _, _)
ScoreNewResumes(st, new_resume_ids, oracle, fault) ==
    IF new_resume_ids = <<>> THEN st
    ELSE LET one == ScoreResumeForAllOpportunities(st, Head(new_resume_ids), FALSE,
                                                   oracle, fault)
         IN ScoreNewResumes(
                IF one.raised # "none"
                THEN [one EXCEPT !.raised = "none", !.ret = None,
                                 !.errors = Append(@, <<Head(new_resume_ids), 0>>)]
                ELSE [one EXCEPT !.ret = None],
                Tail(new_resume_ids), oracle, fault)

RECURSIVE ScoreNewOpportunities(_, _, _, _)
ScoreNewOpportunities(st, new_opp_ids, oracle, fault) ==
    IF new_opp_ids = <<>> THEN st
    ELSE LET one == ScoreAllForOpportunity(st, Head(new_opp_ids), FALSE, oracle, fault)
         IN ScoreNewOpportunities(
                IF one.raised # "none"
                THEN [one EXCEPT !.raised = "none", !.ret = None,
                                 !.errors = Append(@, <<0, Head(new_opp_ids)>>)]
                ELSE [one EXCEPT !.ret = None],
                Tail(new_opp_ids), oracle, fault)

\* process_new_files() after check_for_new_files returned the two id lists,
\* on the collections the scans left: False when both are empty, otherwise
\* the two loops, update_metadata and the export (one file per opportunity),
\* and True.
ProcessNewFiles(st, new_resume_ids, new_opp_ids, oracle, fault) ==
    IF new_resume_ids = <<>> /\ new_opp_ids = <<>>
    THEN [st EXCEPT !.ret = [value |-> FALSE, exported |-> <<>>]]
    ELSE LET scored == ScoreNewOpportunities(
                           ScoreNewResumes(st, new_resume_ids, oracle, fault),
                           new_opp_ids, oracle, fault)
         IN [scored EXCEPT
                !.ret = [value |-> TRUE,
                         exported |->
                             [i \in 1..Cardinality(DOMAIN opportunities_db.opportunities) |->
                                 LET o == Keys(opportunities_db.opportunities)[i]
                                 IN ExportFilename(
                                        o, opportunities_db.opportunities[o].position)]],
                !.writes = @ \o <<"metadata">>]

(************************** background scoring threads **********************)

\* The resume_scores table as the rows it holds, each for a (resume,
\* opportunity) pair.
RowsFor(rows, pair) == {i \in 1..Len(rows) : rows[i].pair = pair}

\* Mutant of the INSERT: no unique_together, a second row for the pair is
\* accepted.
InsertRow_NoUnique(rows, pair, row) ==
    [rows |-> Append(rows, [pair |-> pair, row |-> row]), error |-> "none"]

\* INSERT into resume_scores under unique_together = ['resume', 'opportunity'].
InsertRow(rows, pair, row) ==
    IF RowsFor(rows, pair) # {}
    THEN [rows |-> rows, error |-> "IntegrityError"]
    ELSE [rows |-> Append(rows, [pair |-> pair, row |-> row]), error |-> "none"]

\* UPDATE of the pair's rows with the values of a response.
UpdateRows(rows, pair, resp) ==
    [i \in 1..Len(rows) |->
        IF rows[i].pair = pair
        THEN [rows[i] EXCEPT
                 !.row = ServiceScoreResumeForOpportunity(@, TRUE, resp).row]
        ELSE rows[i]]

\* A scoring thread: the pairs its loop still has to go through, where it is
\* in the body for the first of them, the response it holds, its count, and
\* how many pairs its loop has gone through.
Thread(items) ==
    [items |-> items, pc |-> IF items = <<>> THEN "done" ELSE "exists",
     resp |-> None, count |-> 0, processed |-> 0]

\* The loop moves to its next pair.
NextItem(th, counted) ==
    [th EXCEPT !.items = Tail(@),
               !.pc = IF Tail(th.items) = <<>> THEN "done" ELSE "exists",
               !.resp = None,
               !.count = IF counted THEN @ + 1 ELSE @,
               !.processed = @ + 1]

\* What a response does in ResumeScoringService.score_resume_for_opportunity
\* before the row is written: an exception (caught, None is returned) or not.
ServiceFails(resp) == ServiceScoreResumeForOpportunity(None, TRUE, resp).writes = <<>>

\* One step of a thread on the table: the exists() check of the loop, the
\* first() check of the service, the oracle call, the lookup of
\* update_or_create, and its INSERT. An IntegrityError of the INSERT is
\* answered by update_or_create with a second lookup and an UPDATE (reget) or
\* leaves it and is caught by the service (how says which).
ThreadStep(rows, th, resp, how) ==
    LET pair == Head(th.items)
        found == RowsFor(rows, pair) # {}
        new == ServiceScoreResumeForOpportunity(None, TRUE, th.resp).row
        ins == InsertRow(rows, pair, new)
    IN CASE th.pc = "exists" ->
                [rows |-> rows,
                 th |-> IF found THEN NextItem(th, FALSE) ELSE [th EXCEPT !.pc = "first"]]
         [] th.pc = "first" ->
                [rows |-> rows,
                 th |-> IF found THEN NextItem(th, TRUE) ELSE [th EXCEPT !.pc = "oracle"]]
         [] th.pc = "oracle" ->
                [rows |-> rows,
                 th |-> IF ServiceFails(resp) THEN NextItem(th, TRUE)
                        ELSE [th EXCEPT !.pc = "get", !.resp = resp]]
         [] th.pc = "get" ->
                IF found
                THEN [rows |-> UpdateRows(rows, pair, th.resp), th |-> NextItem(th, TRUE)]
                ELSE [rows |-> rows, th |-> [th EXCEPT !.pc = "insert"]]
         [] OTHER ->
                IF ins.error = "none"
                THEN [rows |-> ins.rows, th |-> NextItem(th, TRUE)]
                ELSE [rows |-> IF how = "reget" THEN UpdateRows(rows, pair, th.resp)
                               ELSE rows,
                      th |-> NextItem(th, TRUE)]

(********************************* actions *********************************)

\* Every exposed operation is synchronous and single-threaded: a call is one
\* step, made by a caller that holds no earlier outcome; Return is the caller
\* letting go of the outcome it holds.

Last(op, arg, ret, raised, calls, writes, ioerr, errors, completed) ==
    [op |-> op, arg |-> arg, ret |-> ret, raised |-> raised, calls |-> calls,
     writes |-> writes, ioerr |-> ioerr, errors |-> errors, completed |-> completed]

Idle == Last("none", None, None, "none", <<>>, <<>>, FALSE, <<>>, 0)

ResumeFaults == {Fault("resumes", "load"), Fault("resumes", "save")}
OppFaults == {Fault("opportunities", "load"), Fault("opportunities", "save")}
ScorerFaults ==
    {Fault("resumes", "load"), Fault("opportunities", "load"),
     Fault("scores", "load"), Fault("scores", "save")}

\* The environment of one register_* call.
RegisterInputs(files, faults) ==
    {[filename |-> f, fault |-> x] : f \in files, x \in faults \cup {NoFault}}

\* The environment of one scan: the folder listing, what read_file does for
\* each file, and the failing store file, if any (then with readable files).
ScanInputs(files, faults) ==
    {[files |-> l, read |-> r, fault |-> NoFault] :
        l \in Listings(files), r \in [files -> ReadOutcomes]}
      \cup {[files |-> l, read |-> [f \in files |-> "ok"], fault |-> x] :
               l \in Listings(files), x \in faults}

ResumeScanInputs == ScanInputs(ResumeFiles, ResumeFaults)
OppScanInputs == ScanInputs(OppFiles, OppFaults)

\* The environment of one scorer call: what the oracle answers and the
\* failing store file, if any (then with a good answer).
PairInputs ==
    {[resp |-> r, fault |-> NoFault] : r \in Responses}
      \cup {[resp |-> Json(HighPayload), fault |-> x] : x \in ScorerFaults}

BatchInputs(pairs) ==
    {[oracle |-> o, fault |-> NoFault] : o \in Oracles(pairs)}
      \cup {[oracle |-> [p \in pairs |-> Json(HighPayload)], fault |-> x] :
               x \in ScorerFaults}

\* The ids a caller passes: the ids the store has ever assigned, and the
\* next one, which it has never assigned.
ResumeIds == 1..resumes_db.next_id
OppIds == 1..opportunities_db.next_id

Return ==
    /\ last # Idle
    /\ last' = Idle
    /\ UNCHANGED <<resumes_db, opportunities_db, scores_db, clock, issued>>

\* StorageManager(base_path) in a new process on the same store.
Open ==
    /\ last = Idle
    /\ resumes_db' = InitResumesDb(resumes_db)
    /\ opportunities_db' = InitOpportunitiesDb(opportunities_db)
    /\ scores_db' = InitScoresDb(scores_db)
    /\ last' = Last("open", None, None, "none", <<>>, <<>>, FALSE, <<>>, 0)
    /\ UNCHANGED <<clock, issued>>

RegisterResumeCall ==
    /\ last = Idle
    /\ \E in \in RegisterInputs(ResumeFiles, ResumeFaults) :
           \E out \in {RegisterResume(resumes_db, in.filename, in.fault)} :
              /\ resumes_db.next_id <= MaxId
              /\ resumes_db' = out.db
              /\ issued' = IF out.writes # <<>>
                           THEN [issued EXCEPT !.resumes = Append(@, out.ret)]
                           ELSE issued
              /\ last' = Last("register_resume", [filename |-> in.filename], out.ret,
                              out.raised, <<>>, out.writes,
                              out.raised = "StorageError", <<>>, 0)
              /\ UNCHANGED <<opportunities_db, scores_db, clock>>

RegisterOpportunityCall ==
    /\ last = Idle
    /\ \E in \in RegisterInputs(OppFiles, OppFaults) :
           \E out \in {RegisterOpportunity(opportunities_db, in.filename, in.fault)} :
              /\ opportunities_db.next_id <= MaxId
              /\ opportunities_db' = out.db
              /\ issued' = IF out.writes # <<>>
                           THEN [issued EXCEPT !.opportunities = Append(@, out.ret)]
                           ELSE issued
              /\ last' = Last("register_opportunity", [filename |-> in.filename], out.ret,
                              out.raised, <<>>, out.writes,
                              out.raised = "StorageError", <<>>, 0)
              /\ UNCHANGED <<resumes_db, scores_db, clock>>

\* An external process removes one entity from a collection file.
ExternalRemoveResume ==
    /\ last = Idle
    /\ \E id \in DOMAIN resumes_db.resumes :
           /\ resumes_db' = [resumes_db EXCEPT !.resumes = Restrict(@, DOMAIN @ \ {id})]
           /\ last' = Last("external_remove_resume", [resume_id |-> id], None, "none",
                           <<>>, <<>>, FALSE, <<>>, 0)
           /\ UNCHANGED <<opportunities_db, scores_db, clock, issued>>

ExternalRemoveOpportunity ==
    /\ last = Idle
    /\ \E id \in DOMAIN opportunities_db.opportunities :
           /\ opportunities_db' =
                  [opportunities_db EXCEPT !.opportunities = Restrict(@, DOMAIN @ \ {id})]
           /\ last' = Last("external_remove_opportunity", [opp_id |-> id], None, "none",
                           <<>>, <<>>, FALSE, <<>>, 0)
           /\ UNCHANGED <<resumes_db, scores_db, clock, issued>>

ScanForNewResumesCall ==
    /\ last = Idle
    /\ \E in \in ResumeScanInputs :
           \E out \in {ScanForNewResumes(resumes_db, in.files, in.read, in.fault)} :
              /\ out.db.next_id <= MaxId + 1
              /\ resumes_db' = out.db
              /\ issued' = [issued EXCEPT !.resumes = @ \o out.registered]
              /\ last' = Last("scan_for_new_resumes", [files |-> in.files],
                              IF out.raised = "none" THEN out.ids ELSE None,
                              out.raised, <<>>, out.writes, out.ioerr, <<>>, 0)
              /\ UNCHANGED <<opportunities_db, scores_db, clock>>

ScanForNewOpportunitiesCall ==
    /\ last = Idle
    /\ \E in \in OppScanInputs :
           \E out \in {ScanForNewOpportunities(opportunities_db, in.files, in.read, in.fault)} :
              /\ out.db.next_id <= MaxId + 1
              /\ opportunities_db' = out.db
              /\ issued' = [issued EXCEPT !.opportunities = @ \o out.registered]
              /\ last' = Last("scan_for_new_opportunities", [files |-> in.files],
                              IF out.raised = "none" THEN out.ids ELSE None,
                              out.raised, <<>>, out.writes, out.ioerr, <<>>, 0)
              /\ UNCHANGED <<resumes_db, scores_db, clock>>

\* Mutant of the scorer's operations: a Score that is saved also bumps the
\* resumes counter.
Scored_BumpsNextId(op, arg, out) ==
    /\ out.clock <= MaxClock
    /\ scores_db' = out.db
    /\ clock' = out.clock
    /\ last' = Last(op, arg, out.ret, out.raised, out.calls, out.writes, out.ioerr,
                    out.errors, out.completed)
    /\ resumes_db' = [resumes_db EXCEPT
                         !.next_id = IF out.writes # <<>> THEN @ + 1 ELSE @]
    /\ UNCHANGED <<opportunities_db, issued>>

\* The scorer's operations leave the two entity collections alone.
Scored(op, arg, out) ==
    /\ out.clock <= MaxClock
    /\ scores_db' = out.db
    /\ clock' = out.clock
    /\ last' = Last(op, arg, out.ret, out.raised, out.calls, out.writes, out.ioerr,
                    out.errors, out.completed)
    /\ UNCHANGED <<resumes_db, opportunities_db, issued>>

ScoreResumeForOpportunityCall ==
    /\ last = Idle
    /\ \E resume_id \in ResumeIds, opp_id \in OppIds, force \in BOOLEAN, in \in PairInputs :
           \E out \in {ScoreResumeForOpportunity(Enter(scores_db, clock, None),
                                                 resume_id, opp_id, force,
                                                 in.resp, in.fault)} :
               /\ Scored("score_resume_for_opportunity",
                         [resume_id |-> resume_id, opp_id |-> opp_id, force |-> force], out)

ScoreAllForOpportunityCall ==
    /\ last = Idle
    /\ \E opp_id \in OppIds, force \in BOOLEAN :
           \E in \in BatchInputs((DOMAIN resumes_db.resumes) \X {opp_id}) :
               \E out \in {ScoreAllForOpportunity(Enter(scores_db, clock, None),
                                                  opp_id, force, in.oracle, in.fault)} :
                   /\ Scored("score_all_for_opportunity",
                             [opp_id |-> opp_id, force |-> force], out)

ScoreResumeForAllOpportunitiesCall ==
    /\ last = Idle
    /\ \E resume_id \in ResumeIds, force \in BOOLEAN :
           \E in \in BatchInputs({resume_id} \X (DOMAIN opportunities_db.opportunities)) :
               \E out \in {ScoreResumeForAllOpportunities(Enter(scores_db, clock, None),
                                                          resume_id, force,
                                                          in.oracle, in.fault)} :
                   /\ Scored("score_resume_for_all_opportunities",
                             [resume_id |-> resume_id, force |-> force], out)

ScoreAllResumesAllOpportunitiesCall ==
    /\ last = Idle
    /\ \E force \in BOOLEAN :
           \E in \in BatchInputs((DOMAIN resumes_db.resumes)
                                   \X (DOMAIN opportunities_db.opportunities)) :
               \E out \in {ScoreAllResumesAllOpportunities(Enter(scores_db, clock, None),
                                                           force, in.oracle, in.fault)} :
                   /\ Scored("score_all_resumes_all_opportunities", [force |-> force], out)

\* score_all_resumes_all_opportunities(force), with the oracle and the fault
\* of the run kept in the argument.
ScoreAllResumesAllOpportunitiesWithCall ==
    /\ last = Idle
    /\ \E force \in BOOLEAN :
           \E in \in BatchInputs((DOMAIN resumes_db.resumes)
                                   \X (DOMAIN opportunities_db.opportunities)) :
               \E out \in {ScoreAllResumesAllOpportunities(Enter(scores_db, clock, None),
                                                           force, in.oracle, in.fault)} :
                   /\ Scored("score_all_resumes_all_opportunities",
                             [force |-> force, oracle |-> in.oracle, fault |-> in.fault],
                             out)

\* A ResumeScore row with a given overall_score and grade is saved.
ResumeScoreSaveCall ==
    /\ last = Idle
    /\ \E overall_score \in 0..ScoreMax, grade \in {"", "B+"} :
          /\ last' = Last("resume_score_save", [overall |-> overall_score],
                          ResumeScoreSave([ResumeScoreDefaults EXCEPT
                                              !.overall_score = overall_score,
                                              !.grade = grade]),
                          "none", <<>>, <<"resume_scores">>, FALSE, <<>>, 0)
          /\ UNCHANGED <<resumes_db, opportunities_db, scores_db, clock, issued>>

\* fix_grades repairs one saved row.
FixSingleGradeCall ==
    /\ last = Idle
    /\ \E overall_score \in 0..ScoreMax, dry_run \in BOOLEAN :
          \E out \in {FixSingleGrade(ResumeScoreSave([ResumeScoreDefaults EXCEPT
                                                         !.overall_score = overall_score]),
                                     dry_run)} :
              /\ last' = Last("fix_single_grade",
                              [overall |-> overall_score, dry_run |-> dry_run],
                              out.obj, "none", <<>>, out.writes, FALSE, <<>>, 0)
              /\ UNCHANGED <<resumes_db, opportunities_db, scores_db, clock, issued>>

ServiceScoreResumeForOpportunityCall ==
    /\ last = Idle
    /\ \E existing \in ExistingRows, force \in BOOLEAN, resp \in Responses :
          \E out \in {ServiceScoreResumeForOpportunity(existing, force, resp)} :
              /\ last' = Last("service_score_resume_for_opportunity",
                              [existing |-> existing, force |-> force],
                              out.ret, out.raised, out.calls, out.writes, FALSE, <<>>, 0)
              /\ UNCHANGED <<resumes_db, opportunities_db, scores_db, clock, issued>>

\* An answer whose scores are integers outside 0..100.
OutOfRangePayload ==
    [overall |-> JInt(ScoreMax + 50), skills_match |-> JInt(0 - 5),
     experience_match |-> JInt(85), grade |-> "A+",
     recommendation |-> "Highly Recommended", key_strength |-> "tutoring"]

\* score_resume_for_opportunity with an oracle that is not held to the
\* prompt's ranges.
ScoreResumeForOpportunityAnyCall ==
    /\ last = Idle
    /\ \E resume_id \in ResumeIds, opp_id \in OppIds, force \in BOOLEAN,
          resp \in Responses \cup {Json(OutOfRangePayload)} :
           \E out \in {ScoreResumeForOpportunity(Enter(scores_db, clock, None),
                                                 resume_id, opp_id, force,
                                                 resp, NoFault)} :
               /\ Scored("score_resume_for_opportunity",
                         [resume_id |-> resume_id, opp_id |-> opp_id, force |-> force], out)

\* A scan during which another writer registers one file: its
\* register_* call runs after the scan has read the existing filenames
\* (get_all_resumes) and before the scan's loop reaches the store again.
\* others is the set of ids the other writer created.
ScanForNewResumesRacingCall ==
    /\ last = Idle
    /\ \E in \in {x \in ResumeScanInputs : x.fault = NoFault}, other \in ResumeFiles :
           \E mid \in {RegisterResume(resumes_db, other, NoFault)} :
              \E out \in {ScanResumesLoop(
                              ScanOutcome(mid.db, <<>>, "none", <<>>, FALSE), in.files,
                              {resumes_db.resumes[id].filename :
                                  id \in DOMAIN resumes_db.resumes},
                              in.read, NoFault)} :
                 /\ out.db.next_id <= MaxId + 1
                 /\ resumes_db' = out.db
                 /\ issued' = [issued EXCEPT
                                  !.resumes = (IF mid.writes # <<>>
                                               THEN Append(@, mid.ret) ELSE @)
                                              \o out.registered]
                 /\ last' = Last("scan_for_new_resumes",
                                 [files |-> in.files,
                                  others |-> IF mid.writes # <<>> THEN {mid.ret} ELSE {}],
                                 IF out.raised = "none" THEN out.ids ELSE None,
                                 out.raised, <<>>, out.writes, out.ioerr, <<>>, 0)
                 /\ UNCHANGED <<opportunities_db, scores_db, clock>>

ScanForNewOpportunitiesRacingCall ==
    /\ last = Idle
    /\ \E in \in {x \in OppScanInputs : x.fault = NoFault}, other \in OppFiles :
           \E mid \in {RegisterOpportunity(opportunities_db, other, NoFault)} :
              \E out \in {ScanOpportunitiesLoop(
                              ScanOutcome(mid.db, <<>>, "none", <<>>, FALSE), in.files,
                              {opportunities_db.opportunities[id].filename :
                                  id \in DOMAIN opportunities_db.opportunities},
                              in.read, NoFault)} :
                 /\ out.db.next_id <= MaxId + 1
                 /\ opportunities_db' = out.db
                 /\ issued' = [issued EXCEPT
                                  !.opportunities = (IF mid.writes # <<>>
                                                     THEN Append(@, mid.ret) ELSE @)
                                                    \o out.registered]
                 /\ last' = Last("scan_for_new_opportunities",
                                 [files |-> in.files,
                                  others |-> IF mid.writes # <<>> THEN {mid.ret} ELSE {}],
                                 IF out.raised = "none" THEN out.ids ELSE None,
                                 out.raised, <<>>, out.writes, out.ioerr, <<>>, 0)
                 /\ UNCHANGED <<resumes_db, scores_db, clock>>

\* What can fail while a report is drawn.
ReportFaults ==
    {Fault("resumes", "load"), Fault("opportunities", "load"), Fault("scores", "load")}

\* generate_opportunity_report(opp_id), for an id that was issued or not.
GenerateOpportunityReportCall ==
    /\ last = Idle
    /\ \E opp_id \in 1..opportunities_db.next_id, fault \in ReportFaults \cup {NoFault} :
         \E out \in {GenerateOpportunityReport(opp_id, clock, fault)} :
             last' = Last("generate_opportunity_report", [opp_id |-> opp_id], out.ret,
                          out.raised, <<>>, <<>>, out.raised = "StorageError", <<>>, 0)
    /\ UNCHANGED <<resumes_db, opportunities_db, scores_db, clock, issued>>

\* The opportunity files of the populated store a report is drawn from, in
\* the order they were registered.
ReportOppFiles == <<"tutor.txt", "coach.txt">>

\* What an earlier export left in the output directory: reports, written at
\* time 0, of opportunities registered so far; the file of one still in the
\* store carries its position, the file of a removed one any position it can
\* have had.
EarlierExportNames ==
    LET present == DOMAIN opportunities_db.opportunities
    IN {ExportFilename(i, opportunities_db.opportunities[i].position) : i \in present}
         \cup {ExportFilename(i, OpportunityRecord(f).position) :
                  i \in Range(issued.opportunities) \ present, f \in OppFiles}

EarlierExports ==
    UNION {[names -> {[generated_at |-> 0]}] : names \in SUBSET EarlierExportNames}

\* export_all_opportunity_reports(output_dir) on a directory an earlier run
\* may have written to.
ExportAllOpportunityReportsCall ==
    /\ last = Idle
    /\ \E dir \in EarlierExports, fault \in ReportFaults \cup {NoFault} :
         \E out \in {ExportAllOpportunityReports(dir, clock, fault)} :
             last' = Last("export_all_opportunity_reports", [dir |-> dir], out.dir,
                          out.raised, <<>>, out.writes, out.raised = "StorageError",
                          <<>>, 0)
    /\ UNCHANGED <<resumes_db, opportunities_db, scores_db, clock, issued>>

\* What can fail in update_metadata.
MetadataFaults ==
    {Fault("resumes", "load"), Fault("opportunities", "load"), Fault("scores", "load"),
     Fault("metadata", "save")}

\* update_metadata()
UpdateMetadataCall ==
    /\ last = Idle
    /\ \E fault \in MetadataFaults \cup {NoFault} :
         \E out \in {UpdateMetadata(clock, fault)} :
             last' = Last("update_metadata", None, out.metadata, out.raised, <<>>,
                          out.writes, out.raised = "StorageError", <<>>, 0)
    /\ UNCHANGED <<resumes_db, opportunities_db, scores_db, clock, issued>>

\* save_score(r1, o1, ...) and save_score(r2, o2, ...) for two different
\* pairs, from two callers at once.
ConcurrentSaveScoreCall ==
    /\ last = Idle
    /\ clock < MaxClock
    /\ \E p1 \in (DOMAIN resumes_db.resumes) \X (DOMAIN opportunities_db.opportunities),
          p2 \in (DOMAIN resumes_db.resumes) \X (DOMAIN opportunities_db.opportunities),
          sched \in Schedules :
         /\ p1 # p2
         /\ \E out \in {SaveScoreSteps(
                            Concurrent(scores_db), [i \in 1..4 |-> sched[i]],
                            <<[resume_id |-> p1[1], opp_id |-> p1[2],
                               score_data |-> CallOpenaiScoring(Json(HighPayload)).score_data],
                              [resume_id |-> p2[1], opp_id |-> p2[2],
                               score_data |-> CallOpenaiScoring(Json(LowPayload)).score_data]>>,
                            clock + 1)} :
                /\ scores_db' = out.file
                /\ last' = Last("concurrent_save_score",
                                [pairs |-> <<p1, p2>>, sched |-> sched], None, "none",
                                <<>>, <<"scores", "scores">>, FALSE, <<>>, 0)
    /\ clock' = clock + 1
    /\ UNCHANGED <<resumes_db, opportunities_db, issued>>

\* register_resume(f1, ...) and register_resume(f2, ...) with two different
\* filenames, from two callers at once.
ConcurrentRegisterResumeCall ==
    /\ last = Idle
    /\ \E f1 \in ResumeFiles, f2 \in ResumeFiles, sched \in Schedules :
         /\ f1 # f2
         /\ \E out \in {RegisterResumeSteps(Concurrent(resumes_db),
                                            [i \in 1..4 |-> sched[i]], <<f1, f2>>)} :
                /\ out.file.next_id <= MaxId + 1
                /\ resumes_db' = out.file
                /\ issued' = [issued EXCEPT
                                 !.resumes = @ \o SortedSeq({out.ret[1], out.ret[2]}
                                                              \ Range(@))]
                /\ last' = Last("concurrent_register_resume",
                                [filenames |-> <<f1, f2>>, sched |-> sched], out.ret,
                                "none", <<>>, <<>>, FALSE, <<>>, 0)
    /\ UNCHANGED <<opportunities_db, scores_db, clock>>

\* FileMonitor.check_for_new_files(), the first statement of
\* process_new_files: the two scans, one after the other. An exception of a
\* scan leaves the cycle.
CheckForNewFilesCall ==
    /\ last = Idle
    /\ \E rin \in ScanInputs(ResumeFiles, {}), oin \in ScanInputs(OppFiles, {}) :
         \E scan_r \in {ScanForNewResumes(resumes_db, rin.files, rin.read, NoFault)},
            scan_o \in {ScanForNewOpportunities(opportunities_db, oin.files, oin.read,
                                                NoFault)} :
             /\ scan_r.db.next_id <= MaxId + 1
             /\ scan_o.db.next_id <= MaxId + 1
             /\ resumes_db' = scan_r.db
             /\ opportunities_db' =
                    IF scan_r.raised = "none" THEN scan_o.db ELSE opportunities_db
             /\ issued' = [resumes |-> issued.resumes \o scan_r.registered,
                           opportunities |->
                               issued.opportunities
                                 \o (IF scan_r.raised = "none"
                                     THEN scan_o.registered ELSE <<>>)]
             /\ last' = IF scan_r.raised # "none"
                        THEN Last("check_for_new_files", None, None, scan_r.raised,
                                  <<>>, scan_r.writes, FALSE, <<>>, 0)
                        ELSE Last("check_for_new_files", None,
                                  IF scan_o.raised = "none"
                                  THEN [new_resume_ids |-> scan_r.ids,
                                        new_opp_ids |-> scan_o.ids]
                                  ELSE None,
                                  scan_o.raised, <<>>, scan_r.writes \o scan_o.writes,
                                  FALSE, <<>>, 0)
    /\ UNCHANGED <<scores_db, clock>>

\* The rest of process_new_files(), on the lists check_for_new_files has just
\* returned: the new ids are scored against the collections as they are now.
ProcessNewFilesCall ==
    /\ last.op = "check_for_new_files"
    /\ last.raised = "none"
    /\ \E in \in BatchInputs((1..MaxId) \X (1..MaxId)) :
         \E out \in {ProcessNewFiles(Enter(scores_db, clock, None),
                                     last.ret.new_resume_ids, last.ret.new_opp_ids,
                                     in.oracle, in.fault)} :
             /\ out.clock <= MaxClock
             /\ scores_db' = out.db
             /\ clock' = out.clock
             /\ last' = Last("process_new_files", last.ret, out.ret, out.raised,
                             out.calls, out.writes, out.ioerr, out.errors, 0)
    /\ UNCHANGED <<resumes_db, opportunities_db, issued>>

\* The caller gets control back when process_new_files has returned or an
\* exception of the scans has left it, not between the scans and the scoring.
CycleReturn ==
    /\ ~(last.op = "check_for_new_files" /\ last.raised = "none")
    /\ Return

\* What the oracle answers a background thread.
RaceResponses == {Json(HighPayload), Json(LowPayload), ApiError}

\* A Resume and an Opportunity are saved at about the same time: the thread
\* of Resume._trigger_scoring goes through the opportunities for resume 1,
\* the thread of score_opportunity_async through the resumes for opportunity
\* 1. The table holds no row, or the row of (2, 1).
RacingScorersStart ==
    /\ last = Idle
    /\ \E rows \in {<<>>,
                    <<[pair |-> <<2, 1>>,
                       row |-> ServiceScoreResumeForOpportunity(
                                   None, TRUE, Json(HighPayload)).row]>>} :
           last' = Last("racing_scorers", [pair |-> <<1, 1>>],
                        [rows |-> rows,
                         th |-> <<Thread(<<<<1, 1>>, <<1, 2>>>>),
                                  Thread(<<<<1, 1>>, <<2, 1>>>>)>>],
                        "none", <<>>, <<>>, FALSE, <<>>, 0)
    /\ UNCHANGED <<resumes_db, opportunities_db, scores_db, clock, issued>>

\* One of the two threads takes its next step.
RacingScorersStep ==
    /\ last.op = "racing_scorers"
    /\ \E t \in {1, 2} :
         /\ last.ret.th[t].pc # "done"
         /\ \E resp \in (IF last.ret.th[t].pc = "oracle" THEN RaceResponses ELSE {None}),
               how \in (IF last.ret.th[t].pc = "insert" THEN {"reget", "raise"}
                        ELSE {"none"}) :
              \E out \in {ThreadStep(last.ret.rows, last.ret.th[t], resp, how)} :
                  last' = [last EXCEPT
                              !.ret.rows = out.rows,
                              !.ret.th[t] = out.th,
                              !.calls = IF last.ret.th[t].pc = "oracle"
                                        THEN Append(@, [pair |-> Head(last.ret.th[t].items),
                                                        resp |-> resp])
                                        ELSE @,
                              !.writes = IF out.rows # last.ret.rows
                                         THEN Append(@, "resume_scores") ELSE @]
    /\ UNCHANGED <<resumes_db, opportunities_db, scores_db, clock, issued>>

(****************************** specifications *****************************)

\* The store right after StorageManager(base_path) on an empty directory.
Init ==
    /\ resumes_db = InitResumesDb(Missing)
    /\ opportunities_db = InitOpportunitiesDb(Missing)
    /\ scores_db = InitScoresDb(Missing)
    /\ clock = 0
    /\ issued = [resumes |-> <<>>, opportunities |-> <<>>]
    /\ last = Idle

\* The store and the monitor: registrations, scans, re-opening, removals.
StoreNext ==
    \/ Return
    \/ Open
    \/ RegisterResumeCall
    \/ RegisterOpportunityCall
    \/ ExternalRemoveResume
    \/ ExternalRemoveOpportunity
    \/ ScanForNewResumesCall
    \/ ScanForNewOpportunitiesCall

StoreSpec == Init /\ [][StoreNext]_vars

\* The store after a scan has registered every file of the two folders.
InitScorer ==
    /\ resumes_db = ScanForNewResumes(InitResumesDb(Missing), <<"alice.txt", "bob.txt">>,
                                      [f \in ResumeFiles |-> "ok"], NoFault).db
    /\ opportunities_db =
           ScanForNewOpportunities(InitOpportunitiesDb(Missing), <<"tutor.txt", "coach.txt">>,
                                   [f \in OppFiles |-> "ok"], NoFault).db
    /\ scores_db = InitScoresDb(Missing)
    /\ clock = 0
    /\ issued = [resumes |-> Keys(resumes_db.resumes),
                 opportunities |-> Keys(opportunities_db.opportunities)]
    /\ last = Idle

\* The scorer on a populated store, with external removals.
ScorerNext ==
    \/ Return
    \/ ExternalRemoveResume
    \/ ExternalRemoveOpportunity
    \/ ScoreResumeForOpportunityCall
    \/ ScoreAllForOpportunityCall
    \/ ScoreResumeForAllOpportunitiesCall
    \/ ScoreAllResumesAllOpportunitiesCall

ScorerSpec == InitScorer /\ [][ScorerNext]_vars

\* The whole core.
Next == StoreNext \/ ScorerNext

Spec == Init /\ [][Next]_vars

\* The Django models' grade derivation and its repair command.
GradeNext ==
    \/ Return
    \/ ResumeScoreSaveCall
    \/ FixSingleGradeCall

GradeSpec == Init /\ [][GradeNext]_vars

\* The two scoring paths for one pair: IncrementalScorer on the JSON store
\* and ResumeScoringService on the Django models.
PairNext ==
    \/ Return
    \/ ScoreResumeForOpportunityCall
    \/ ServiceScoreResumeForOpportunityCall

PairSpec == InitScorer /\ [][PairNext]_vars

\* The scorer with an oracle that may answer any integers.
RangeNext ==
    \/ Return
    \/ ScoreResumeForOpportunityAnyCall

RangeSpec == InitScorer /\ [][RangeNext]_vars

\* The monitor's scans, alone and next to another writer of the store.
MonitorNext ==
    \/ Return
    \/ ExternalRemoveResume
    \/ ExternalRemoveOpportunity
    \/ ScanForNewResumesCall
    \/ ScanForNewOpportunitiesCall
    \/ ScanForNewResumesRacingCall
    \/ ScanForNewOpportunitiesRacingCall

MonitorSpec == Init /\ [][MonitorNext]_vars

\* The overall scores the oracle gave in a populated store: all equal,
\* rising with the id, falling with the id, or alternating.
OverallPatterns == {"equal", "rising", "falling", "alternating"}

OverallOfPattern(pattern, i) ==
    CASE pattern = "equal" -> 88
      [] pattern = "rising" -> 50 + 3 * i
      [] pattern = "falling" -> 100 - 3 * i
      [] OTHER -> IF i % 2 = 0 THEN 60 ELSE 88

ReportResumeName(i) == "resume_" \o ToString(i) \o ".txt"

\* The Score save_score stored at time 1 for an oracle answer with this overall.
StoredScore(resume_id, opp_id, overall) ==
    LET called == CallOpenaiScoring(Json([HighPayload EXCEPT !.overall = JInt(overall)]))
        score_data == [k \in (DOMAIN called.score_data)
                               \cup {"resume_id", "opp_id", "filename"} |->
                          CASE k = "resume_id" -> resume_id
                            [] k = "opp_id" -> opp_id
                            [] k = "filename" -> ReportResumeName(resume_id)
                            [] OTHER -> called.score_data[k]]
    IN Put(score_data, "scored_at", 1)

\* A store after n resumes and two opportunities were registered and scored:
\* every resume has a Score for opportunity 1 (the last one only when scored
\* says so), the even ones for opportunity 2 as well; resume 2 was removed
\* from the resumes file afterwards when removed says so.
ReportInit ==
    \E n \in 0..MaxCandidates, pattern \in OverallPatterns, scored \in BOOLEAN,
       removed \in BOOLEAN :
        LET has1 == {i \in 1..n : scored \/ i < n}
            has2 == {i \in 1..n : i % 2 = 0}
        IN /\ resumes_db =
                  [resumes |-> [i \in {j \in 1..n : ~(removed /\ j = 2)} |->
                                   ResumeRecord(ReportResumeName(i))],
                   next_id |-> n + 1]
           /\ opportunities_db =
                  ScanForNewOpportunities(InitOpportunitiesDb(Missing), ReportOppFiles,
                                          [f \in OppFiles |-> "ok"], NoFault).db
           /\ scores_db =
                  [scores |->
                      [i \in has1 \cup has2 |->
                          [o \in {x \in {1, 2} : (x = 1 /\ i \in has1)
                                                   \/ (x = 2 /\ i \in has2)} |->
                              StoredScore(i, o, IF o = 1 THEN OverallOfPattern(pattern, i)
                                                ELSE 70)]]]
           /\ clock = 1
           /\ issued = [resumes |-> [i \in 1..n |-> i], opportunities |-> <<1, 2>>]
           /\ last = Idle

\* The report generator and the run metadata on a populated store, with
\* external removals.
ReportNext ==
    \/ Return
    \/ ExternalRemoveOpportunity
    \/ GenerateOpportunityReportCall
    \/ ExportAllOpportunityReportsCall
    \/ UpdateMetadataCall

ReportSpec == ReportInit /\ [][ReportNext]_vars

\* The three components on one store: the monitor fills it, the scorer
\* scores, the report generator reads.
FrameNext ==
    \/ Return
    \/ ScanForNewResumesCall
    \/ ScanForNewOpportunitiesCall
    \/ ScoreResumeForOpportunityCall
    \/ ScoreAllForOpportunityCall
    \/ ScoreResumeForAllOpportunitiesCall
    \/ ScoreAllResumesAllOpportunitiesCall
    \/ GenerateOpportunityReportCall
    \/ ExportAllOpportunityReportsCall

FrameSpec == Init /\ [][FrameNext]_vars

\* Two callers at once on a store that registrations fill.
ConcurrentNext ==
    \/ Return
    \/ RegisterResumeCall
    \/ RegisterOpportunityCall
    \/ ConcurrentSaveScoreCall
    \/ ConcurrentRegisterResumeCall

ConcurrentSpec == Init /\ [][ConcurrentNext]_vars

\* The cross product after single pairs were scored.
AllPairsNext ==
    \/ Return
    \/ ScoreResumeForOpportunityCall
    \/ ScoreAllResumesAllOpportunitiesWithCall

\* The store after both folders were scanned and, at time 0, resume 1 was
\* scored below the threshold for opportunity 1 (when low says so) and above
\* it for opportunity 2 (when high says so).
AllPairsInit ==
    /\ resumes_db = ScanForNewResumes(InitResumesDb(Missing), <<"alice.txt", "bob.txt">>,
                                      [f \in ResumeFiles |-> "ok"], NoFault).db
    /\ opportunities_db =
           ScanForNewOpportunities(InitOpportunitiesDb(Missing), <<"tutor.txt", "coach.txt">>,
                                   [f \in OppFiles |-> "ok"], NoFault).db
    /\ \E low \in BOOLEAN, high \in BOOLEAN :
           LET first == IF low
                        THEN ScoreUncached(Enter(InitScoresDb(Missing), -1, None), 1, 1,
                                           Json(LowPayload), NoFault).db
                        ELSE InitScoresDb(Missing)
           IN scores_db = IF high
                          THEN ScoreUncached(Enter(first, -1, None), 1, 2,
                                             Json(HighPayload), NoFault).db
                          ELSE first
    /\ clock = 0
    /\ issued = [resumes |-> Keys(resumes_db.resumes),
                 opportunities |-> Keys(opportunities_db.opportunities)]
    /\ last = Idle

AllPairsSpec == AllPairsInit /\ [][AllPairsNext]_vars

\* The cycles of the AutoScorer on a store that starts empty.
CycleNext ==
    \/ CycleReturn
    \/ CheckForNewFilesCall
    \/ ProcessNewFilesCall

CycleSpec == Init /\ [][CycleNext]_vars

\* The two background threads of the Django path on one table.
RaceNext ==
    \/ Return
    \/ RacingScorersStart
    \/ RacingScorersStep

RaceSpec == Init /\ [][RaceNext]_vars

\* Every operation of the core, and nothing outside it: no external removal.
CoreNext ==
    \/ FrameNext
    \/ Open
    \/ RegisterResumeCall
    \/ RegisterOpportunityCall
    \/ UpdateMetadataCall

CoreSpec == Init /\ [][CoreNext]_vars

(********************************** claims *********************************)

\* C1: registration is idempotent by filename. A register_resume (resp.
\* register_opportunity) call that returns, made with a filename already
\* present in the collection, returns the id that holds that filename, saves
\* nothing and leaves the collection (records, size, next_id) as it was; a
\* call that does write stores the filename under the id it returns, which is
\* the id a later call with that filename gets back.
C1_IdempotentRegistration ==
    [][/\ (last'.op = "register_resume" /\ last'.raised = "none")
            => /\ (\E id \in DOMAIN resumes_db.resumes :
                      resumes_db.resumes[id].filename = last'.arg.filename)
                  => /\ last'.ret \in DOMAIN resumes_db.resumes
                     /\ resumes_db.resumes[last'.ret].filename = last'.arg.filename
                     /\ last'.writes = <<>>
                     /\ resumes_db' = resumes_db
               /\ last'.ret \in DOMAIN resumes_db'.resumes
               /\ resumes_db'.resumes[last'.ret].filename = last'.arg.filename
       /\ (last'.op = "register_opportunity" /\ last'.raised = "none")
            => /\ (\E id \in DOMAIN opportunities_db.opportunities :
                      opportunities_db.opportunities[id].filename = last'.arg.filename)
                  => /\ last'.ret \in DOMAIN opportunities_db.opportunities
                     /\ opportunities_db.opportunities[last'.ret].filename
                            = last'.arg.filename
                     /\ last'.writes = <<>>
                     /\ opportunities_db' = opportunities_db
               /\ last'.ret \in DOMAIN opportunities_db'.opportunities
               /\ opportunities_db'.opportunities[last'.ret].filename
                      = last'.arg.filename]_vars

\* A second registration of a present filename has returned its id.
C1_Witness ==
    /\ last.op = "register_resume"
    /\ last.raised = "none"
    /\ last.writes = <<>>
    /\ last.ret \in DOMAIN resumes_db.resumes
    /\ resumes_db.resumes[last.ret].filename = last.arg.filename

\* C2: monotonic identity. From the empty store, the k-th registration that
\* creates a record gets id k, in each collection on its own, also across
\* re-creations of the StorageManager; next_id is the count of ids handed out
\* plus one.
C2_MonotonicIdentity ==
    /\ \A i \in 1..Len(issued.resumes) : issued.resumes[i] = i
    /\ resumes_db.next_id = Len(issued.resumes) + 1
    /\ \A i \in 1..Len(issued.opportunities) : issued.opportunities[i] = i
    /\ opportunities_db.next_id = Len(issued.opportunities) + 1

\* MaxId resumes were registered, fewer opportunities, after a re-creation.
C2_Witness ==
    /\ last.op = "register_resume"
    /\ last.ret = MaxId
    /\ issued.resumes = [i \in 1..MaxId |-> i]
    /\ Len(issued.opportunities) = 1

\* C3: an id is never reused. The persisted next_id is above every id ever
\* handed out in the collection and no id was handed out twice, whatever an
\* external process has removed.
C3_NeverReused ==
    /\ \A i \in 1..Len(issued.resumes) :
          /\ issued.resumes[i] < resumes_db.next_id
          /\ \A j \in 1..Len(issued.resumes) :
                issued.resumes[i] = issued.resumes[j] => i = j
    /\ \A i \in 1..Len(issued.opportunities) :
          /\ issued.opportunities[i] < opportunities_db.next_id
          /\ \A j \in 1..Len(issued.opportunities) :
                issued.opportunities[i] = issued.opportunities[j] => i = j

\* A new filename was registered after every earlier resume had been removed.
C3_Witness ==
    /\ last.op = "register_resume"
    /\ last.writes # <<>>
    /\ DOMAIN resumes_db.resumes = {last.ret}
    /\ Len(issued.resumes) > 1

\* What the checks below read off an outcome: how often the oracle was
\* invoked for a pair, the answers it gave, and the Scores an operation
\* returned (one list, or one list per opportunity).
CallsFor(calls, pair) == {i \in 1..Len(calls) : calls[i].pair = pair}

BatchOps ==
    {"score_all_for_opportunity", "score_resume_for_all_opportunities",
     "score_all_resumes_all_opportunities"}

Returned(l) ==
    IF l.op = "score_all_resumes_all_opportunities"
    THEN UNION {Range(l.ret[o]) : o \in DOMAIN l.ret}
    ELSE Range(l.ret)

ReturnedCount(l) ==
    IF l.op = "score_all_resumes_all_opportunities"
    THEN Cardinality({<<o, i>> \in (DOMAIN l.ret) \X (1..(MaxId + 1)) : i <= Len(l.ret[o])})
    ELSE Len(l.ret)

\* The pairs a batch covers: the entities in the collections crossed with the
\* argument.
Covered(l) ==
    CASE l.op = "score_all_for_opportunity" ->
             (DOMAIN resumes_db.resumes) \X {l.arg.opp_id}
      [] l.op = "score_resume_for_all_opportunities" ->
             {l.arg.resume_id} \X (DOMAIN opportunities_db.opportunities)
      [] OTHER ->
             (DOMAIN resumes_db.resumes) \X (DOMAIN opportunities_db.opportunities)

BothExist(pair) ==
    /\ GetResume(resumes_db, pair[1]) # None
    /\ GetOpportunity(opportunities_db, pair[2]) # None

\* C4 (as the spec states it): after score_pair(c, o, force=False) has scored
\* a pair that had no Score, a second score_pair(c, o, force=False) returns
\* the same data as the first call returned, scored_at included, and does not
\* invoke the oracle, whatever the oracle would answer.
C4_CacheCorrectness ==
    (/\ last.op = "score_resume_for_opportunity"
     /\ ~last.arg.force
     /\ last.raised = "none"
     /\ Len(last.calls) = 1)
      => \A resp \in Responses :
            LET second == ScoreResumeForOpportunity(Enter(scores_db, clock, None),
                                                    last.arg.resume_id, last.arg.opp_id,
                                                    FALSE, resp, NoFault)
            IN /\ second.raised = "none"
               /\ second.calls = <<>>
               /\ second.ret = last.ret

\* C5: threshold-skip. In score_all_for_opportunity(o, force=False), for every
\* candidate whose Score for (c, o) before the call has overall < Threshold,
\* the oracle is not invoked for the pair, the stored Score is the same after
\* the call, and, when the call returns, the list holds that Score exactly
\* once for a candidate of the collection.
C5_ThresholdSkip ==
    [][(last'.op = "score_all_for_opportunity" /\ ~last'.arg.force)
         => \A c \in ResumeIds :
               LET o == last'.arg.opp_id
                   existing == GetScore(scores_db, c, o)
               IN (existing # None /\ OverallOf(existing) < Threshold)
                    => /\ CallsFor(last'.calls, <<c, o>>) = {}
                       /\ GetScore(scores_db', c, o) = existing
                       /\ (last'.raised = "none" /\ c \in DOMAIN resumes_db.resumes)
                            => /\ existing \in Range(last'.ret)
                               /\ Cardinality({i \in 1..Len(last'.ret) :
                                                  last'.ret[i].resume_id = c}) = 1]_vars

\* A batch without force returned a stored Score below the threshold and
\* asked the oracle about another candidate.
C5_Witness ==
    /\ last.op = "score_all_for_opportunity"
    /\ ~last.arg.force
    /\ last.raised = "none"
    /\ \E sc \in Range(last.ret) :
          /\ "scored_at" \in DOMAIN sc
          /\ sc.overall < Threshold
          /\ CallsFor(last.calls, <<sc.resume_id, sc.opp_id>>) = {}
    /\ Len(last.calls) = 1

\* C6: with force=True and the store readable, score_pair and
\* score_all_for_opportunity invoke the oracle exactly once for every pair of
\* existing entities they cover and for no other pair, whether a Score is
\* stored or not; where the answer is good and the save succeeds, the stored
\* Score afterwards is the returned data with a fresh scored_at.
C6_ForceInvokesOracle ==
    [][/\ (/\ last'.op = "score_resume_for_opportunity"
           /\ last'.arg.force
           /\ last'.raised # "StorageError")
            => LET pair == <<last'.arg.resume_id, last'.arg.opp_id>>
               IN /\ BothExist(pair)
                     => /\ Len(last'.calls) = 1
                        /\ last'.calls[1].pair = pair
                  /\ ~BothExist(pair) => last'.calls = <<>>
                  /\ last'.raised = "none"
                     => /\ clock' = clock + 1
                        /\ last'.ret.overall = PyInt(last'.calls[1].resp.data.overall)
                        /\ GetScore(scores_db', pair[1], pair[2])
                              = Put(last'.ret, "scored_at", clock')
       /\ (/\ last'.op = "score_all_for_opportunity"
           /\ last'.arg.force
           /\ last'.raised # "StorageError")
            => /\ \A pair \in Covered(last') :
                     /\ Cardinality(CallsFor(last'.calls, pair))
                           = IF BothExist(pair) THEN 1 ELSE 0
                     /\ \A sc \in Range(last'.ret) :
                           (sc.resume_id = pair[1])
                              => /\ \A i \in CallsFor(last'.calls, pair) :
                                       sc.overall = PyInt(last'.calls[i].resp.data.overall)
                                 /\ GetScore(scores_db', pair[1], pair[2]) # None
                                 /\ Restrict(GetScore(scores_db', pair[1], pair[2]),
                                             DOMAIN sc) = sc
                                 /\ GetScore(scores_db', pair[1], pair[2]).scored_at > clock
               /\ \A i \in 1..Len(last'.calls) : last'.calls[i].pair \in Covered(last')]_vars

\* A forced batch asked the oracle about a pair that already had a Score and
\* stored the new one over it.
C6_Witness ==
    /\ last.op = "score_all_for_opportunity"
    /\ last.arg.force
    /\ last.raised = "none"
    /\ Len(last.calls) = 1
    /\ Len(last.ret) = 1
    /\ clock = 2
    /\ ScoredPairs(scores_db) = {last.calls[1].pair}

C8_BatchFailureIsolation ==
    [][(last'.op \in BatchOps /\ ~last'.ioerr)
         => LET l == last'
                asked(pair) == CallsFor(l.calls, pair)
                failed(pair) == \E i \in asked(pair) : l.calls[i].resp \in BadResponses
                logged(pair) == \E i \in 1..Len(l.errors) : l.errors[i] = pair
                results(pair) == {sc \in Returned(l) :
                                     sc.resume_id = pair[1] /\ sc.opp_id = pair[2]}
                reused(pair) == /\ asked(pair) = {}
                                /\ GetScore(scores_db, pair[1], pair[2]) # None
                                /\ results(pair) = {GetScore(scores_db, pair[1], pair[2])}
            IN /\ l.raised = "none"
               /\ \A pair \in Covered(l) :
                     /\ Cardinality(asked(pair)) <= 1
                     /\ failed(pair)
                          => /\ logged(pair)
                             /\ results(pair) = {}
                             /\ GetScore(scores_db', pair[1], pair[2])
                                   = GetScore(scores_db, pair[1], pair[2])
                     /\ (asked(pair) # {} /\ ~failed(pair))
                          => /\ ~logged(pair)
                             /\ Cardinality(results(pair)) = 1
                             /\ \A sc \in results(pair) :
                                   GetScore(scores_db', pair[1], pair[2])
                                      = Put(sc, "scored_at",
                                            GetScore(scores_db', pair[1], pair[2]).scored_at)
                     /\ asked(pair) = {}
                          => \/ reused(pair) /\ ~logged(pair)
                             \/ /\ ~BothExist(pair)
                                /\ logged(pair)
                                /\ results(pair) = {}
               /\ \A i \in 1..Len(l.calls) : l.calls[i].pair \in Covered(l)
               /\ ReturnedCount(l)
                     = Cardinality({pair \in Covered(l) :
                                       reused(pair) \/ (asked(pair) # {} /\ ~failed(pair))})
               /\ IF l.op = "score_all_resumes_all_opportunities"
                  THEN /\ DOMAIN l.ret = DOMAIN opportunities_db.opportunities
                       /\ \A o \in DOMAIN l.ret :
                             \A i \in 1..Len(l.ret[o]) : l.ret[o][i].opp_id = o
                       /\ l.completed = Cardinality(Covered(l))
                  ELSE TRUE]_vars

\* A batch went on after a failed answer: the first pair failed, the second
\* was scored and is the only result.
C8_Witness ==
    /\ last.op = "score_all_for_opportunity"
    /\ last.raised = "none"
    /\ Len(last.calls) = 2
    /\ last.calls[1].resp \in BadResponses
    /\ last.calls[2].resp \in GoodResponses
    /\ last.errors = <<last.calls[1].pair>>
    /\ Len(last.ret) = 1
    /\ last.ret[1].resume_id = last.calls[2].pair[1]

\* C9 (as the spec states it): when a store call raises StorageError during
\* one of the five batch operations of the scorer and the monitor, the
\* operation raises StorageError.
C9_StorageErrorPropagates ==
    (/\ last.op \in BatchOps \cup {"scan_for_new_resumes", "scan_for_new_opportunities"}
     /\ last.ioerr)
      => last.raised = "StorageError"

\* C10: upsert. Every stored Score sits under the pair it names, one per
\* pair; a score_pair call that saves leaves under its pair exactly the data
\* it saved (the returned data and the time of the save, nothing of the Score
\* that was there before) and leaves the Score of every other pair as it was.
C10_Upsert ==
    [][/\ \A pair \in ScoredPairs(scores_db') :
             /\ GetScore(scores_db', pair[1], pair[2]).resume_id = pair[1]
             /\ GetScore(scores_db', pair[1], pair[2]).opp_id = pair[2]
       /\ (last'.op = "score_resume_for_opportunity" /\ last'.writes # <<>>)
            => LET pair == <<last'.arg.resume_id, last'.arg.opp_id>>
               IN /\ last'.writes = <<"scores">>
                  /\ GetScore(scores_db', pair[1], pair[2])
                        = Put(last'.ret, "scored_at", clock')
                  /\ ScoredPairs(scores_db') = ScoredPairs(scores_db) \cup {pair}
                  /\ \A other \in ScoredPairs(scores_db') \ {pair} :
                        GetScore(scores_db', other[1], other[2])
                           = GetScore(scores_db, other[1], other[2])]_vars

\* A forced score_pair saved a second time for the only pair that has a
\* Score: the stored Score is the new one, without a concerns field.
C10_Witness ==
    /\ last.op = "score_resume_for_opportunity"
    /\ last.arg.force
    /\ last.writes = <<"scores">>
    /\ clock = 2
    /\ Cardinality(ScoredPairs(scores_db)) = 1
    /\ "concerns" \notin DOMAIN GetScore(scores_db, last.arg.resume_id, last.arg.opp_id)

\* C12 (as the spec states it): one grade banding. For every overall in
\* 0..100 the grade ResumeScore.save computes equals the grade the repair
\* path (calculate_grade) computes, and it is one of A+, A, B+, B, C+, C, D, F.
C12_OneBanding ==
    (last.op \in {"resume_score_save", "fix_single_grade"})
      => /\ ResumeScoreGrade(last.arg.overall) = CalculateGrade(last.arg.overall)
         /\ ResumeScoreGrade(last.arg.overall) \in Grades
         /\ last.ret.grade = CalculateGrade(last.arg.overall)

\* C11 (as the spec states it): every Score the scorer has stored carries a
\* grade among A+, A, B+, B, C+, C, D, F that is the grade derived from its
\* overall by a banding of the code (calculate_grade, or ResumeScore.save),
\* whatever grade the oracle's response carried.
C11_GradeDerived ==
    \A pair \in ScoredPairs(scores_db) :
        LET sc == GetScore(scores_db, pair[1], pair[2])
        IN /\ sc.grade \in Grades
           /\ sc.grade \in {CalculateGrade(sc.overall), ResumeScoreGrade(sc.overall)}

\* Answers that are not JSON, lack a required field, or carry a non-integer
\* where an integer score is required.
MalformedResponses == {NotJson, Json(MissingFieldPayload), Json(NonIntegerPayload)}

\* C13 (as the spec states it): on both scoring paths, when the oracle was
\* asked and its answer is malformed, the call fails with ScoringError and
\* writes no Score.
C13_MalformedNeverStored ==
    (/\ last.op \in {"score_resume_for_opportunity",
                     "service_score_resume_for_opportunity"}
     /\ \E i \in 1..Len(last.calls) : last.calls[i].resp \in MalformedResponses)
      => /\ last.raised = "ScoringError"
         /\ last.writes = <<>>
         /\ last.ret = None

\* C14 (as the spec states it): every stored Score has overall, skills_match,
\* experience_match and education_match within 0..100, whatever integers the
\* oracle returned.
C14_ScoreRange ==
    \A pair \in ScoredPairs(scores_db) :
        LET sc == GetScore(scores_db, pair[1], pair[2])
        IN \A f \in {"overall", "skills_match", "experience_match", "education_match"} :
              sc[f] \in 0..ScoreMax

\* The ids another writer created during a scan.
OthersOf(l) == IF "others" \in DOMAIN l.arg THEN l.arg.others ELSE {}

\* C15 (as the spec states it): a scan that returns, returns exactly the ids
\* it registered itself: each returned id was absent from the collection
\* before the call, is present after it, was not created by another writer
\* during the call, and a scan that finds only files already in the store
\* returns the empty list and leaves the collection as it was.
C15_ExactlyNew ==
    [][/\ (last'.op = "scan_for_new_resumes" /\ last'.raised = "none")
            => /\ \A i \in 1..Len(last'.ret) :
                     /\ last'.ret[i] \notin DOMAIN resumes_db.resumes
                     /\ last'.ret[i] \in DOMAIN resumes_db'.resumes
                     /\ last'.ret[i] \notin OthersOf(last')
               /\ Len(last'.ret) = Len(last'.writes)
               /\ (/\ OthersOf(last') = {}
                   /\ Range(last'.arg.files)
                         \subseteq {resumes_db.resumes[id].filename :
                                       id \in DOMAIN resumes_db.resumes})
                    => /\ last'.ret = <<>>
                       /\ resumes_db' = resumes_db
       /\ (last'.op = "scan_for_new_opportunities" /\ last'.raised = "none")
            => /\ \A i \in 1..Len(last'.ret) :
                     /\ last'.ret[i] \notin DOMAIN opportunities_db.opportunities
                     /\ last'.ret[i] \in DOMAIN opportunities_db'.opportunities
                     /\ last'.ret[i] \notin OthersOf(last')
               /\ Len(last'.ret) = Len(last'.writes)
               /\ (/\ OthersOf(last') = {}
                   /\ Range(last'.arg.files)
                         \subseteq {opportunities_db.opportunities[id].filename :
                                       id \in DOMAIN opportunities_db.opportunities})
                    => /\ last'.ret = <<>>
                       /\ opportunities_db' = opportunities_db]_vars

\* C16 (as the spec states it): no failure of the text extraction aborts a
\* scan. With the store working, scan_for_new_resumes and
\* scan_for_new_opportunities go through every file of the listing and
\* return their list, whatever read_file raised for a file.
C16_ScanIsolation ==
    (/\ last.op \in {"scan_for_new_resumes", "scan_for_new_opportunities"}
     /\ ~last.ioerr)
      => last.raised = "none"

\* C17. Report completeness: when exactly M registered candidates have a Score
\* for opportunity o, the report of o has total_candidates = M, all_candidates
\* has M entries, top_10_candidates has min(M, 10) entries and is the head of
\* all_candidates, both are in non-increasing order of overall, highest_score
\* and lowest_score are the maximum and the minimum overall, and with M = 0
\* every statistic is 0.
ReportedFor(l) ==
    {r \in DOMAIN resumes_db.resumes : <<r, l.arg.opp_id>> \in ScoredPairs(scores_db)}

NonIncreasing(seq) ==
    \A i \in 1..(Len(seq) - 1) : seq[i].overall_score >= seq[i + 1].overall_score

IsReport(l) ==
    /\ l.op = "generate_opportunity_report"
    /\ l.raised = "none"
    /\ "statistics" \in DOMAIN l.ret

C17_ReportComplete ==
    IsReport(last) =>
        LET M == Cardinality(ReportedFor(last))
            o == last.arg.opp_id
            stats == last.ret.statistics
            all == last.ret.all_candidates
            top == last.ret.top_10_candidates
            overalls == {scores_db.scores[r][o].overall : r \in ReportedFor(last)}
        IN /\ stats.total_candidates = M
           /\ Len(all) = M
           /\ {all[i].resume_id : i \in 1..Len(all)} = ReportedFor(last)
           /\ \A i \in 1..Len(all) :
                  all[i].overall_score = scores_db.scores[all[i].resume_id][o].overall
           /\ Len(top) = (IF M < 10 THEN M ELSE 10)
           /\ top = SubSeq(all, 1, Len(top))
           /\ NonIncreasing(all)
           /\ NonIncreasing(top)
           /\ M > 0 => /\ stats.highest_score \in overalls
                       /\ \A v \in overalls : v <= stats.highest_score
                       /\ stats.lowest_score \in overalls
                       /\ \A v \in overalls : v >= stats.lowest_score
           /\ M = 0 => /\ stats.average_score = 0
                       /\ stats.highest_score = 0
                       /\ stats.lowest_score = 0

\* A report of more than ten candidates with different scores, one Score
\* belonging to a resume that is no longer in the store.
C17_Witness ==
    /\ IsReport(last)
    /\ Len(last.ret.all_candidates) > 10
    /\ Len(last.ret.top_10_candidates) = 10
    /\ last.ret.statistics.highest_score > last.ret.statistics.lowest_score
    /\ \E r \in DOMAIN scores_db.scores :
           /\ last.arg.opp_id \in DOMAIN scores_db.scores[r]
           /\ r \notin DOMAIN resumes_db.resumes

\* C18. After export_all_opportunity_reports(output_dir) completes, the output
\* directory holds exactly one report file per opportunity currently in the
\* store, each with the report of this run, and no file an earlier run wrote
\* for something that is no longer a current opportunity.
C18_NoStaleExports ==
    (last.op = "export_all_opportunity_reports" /\ last.raised = "none") =>
        /\ DOMAIN last.ret =
               {ExportFilename(o, opportunities_db.opportunities[o].position) :
                   o \in DOMAIN opportunities_db.opportunities}
        /\ \A o \in DOMAIN opportunities_db.opportunities :
               last.ret[ExportFilename(o, opportunities_db.opportunities[o].position)]
                   = GenerateOpportunityReport(o, clock, NoFault).ret

\* C19. Run metadata is a recomputable aggregate: right after update_metadata,
\* total_resumes is the number of candidates in the store, total_opportunities
\* the number of opportunities and total_scores the number of (candidate,
\* opportunity) pairs that have a Score; and update_metadata modifies none of
\* the three other collections.
C19_MetadataAggregate ==
    [][(last'.op = "update_metadata" /\ last'.raised = "none") =>
          /\ last'.ret.total_resumes = Cardinality(DOMAIN resumes_db'.resumes)
          /\ last'.ret.total_opportunities =
                 Cardinality(DOMAIN opportunities_db'.opportunities)
          /\ last'.ret.total_scores = Cardinality(ScoredPairs(scores_db'))
          /\ last'.writes = <<"metadata">>
          /\ UNCHANGED <<resumes_db, opportunities_db, scores_db>>]_vars

\* Metadata written for a store in which a resume has Scores for two
\* opportunities, so that the Scores outnumber the resumes that have one.
C19_Witness ==
    /\ last.op = "update_metadata"
    /\ last.raised = "none"
    /\ last.ret.total_scores > Cardinality(DOMAIN scores_db.scores)
    /\ last.ret.total_resumes > 0

\* C20. Single-writer frame: every operation of the scorer leaves the resumes
\* and opportunities collections (records and next_id) unchanged; every scan
\* of the monitor leaves the scores collection unchanged; every operation of
\* the report generator leaves all three unchanged.
ScorerOps == BatchOps \cup {"score_resume_for_opportunity"}

MonitorOps == {"scan_for_new_resumes", "scan_for_new_opportunities"}

ReportOps == {"generate_opportunity_report", "export_all_opportunity_reports"}

C20_SingleWriterFrame ==
    [][/\ last'.op \in ScorerOps => UNCHANGED <<resumes_db, opportunities_db>>
       /\ last'.op \in MonitorOps => UNCHANGED scores_db
       /\ last'.op \in ReportOps =>
              UNCHANGED <<resumes_db, opportunities_db, scores_db>>]_vars

\* A scan has registered a resume in a store that already holds a Score the
\* scorer saved.
C20_Witness ==
    /\ last.op = "scan_for_new_resumes"
    /\ last.writes # <<>>
    /\ ScoredPairs(scores_db) # {}
    /\ DOMAIN opportunities_db.opportunities # {}

\* C21. Nothing in the core deletes: over any sequence of store, monitor,
\* scorer and report operations the set of candidate ids, the set of
\* opportunity ids and the set of scored pairs only grow, and the record of a
\* registered candidate or opportunity (its filename under its id) never
\* changes.
C21_NothingDeleted ==
    [][/\ \A id \in DOMAIN resumes_db.resumes :
              /\ id \in DOMAIN resumes_db'.resumes
              /\ resumes_db'.resumes[id] = resumes_db.resumes[id]
       /\ \A id \in DOMAIN opportunities_db.opportunities :
              /\ id \in DOMAIN opportunities_db'.opportunities
              /\ opportunities_db'.opportunities[id] = opportunities_db.opportunities[id]
       /\ ScoredPairs(scores_db) \subseteq ScoredPairs(scores_db')]_vars

\* A resume that has a Score for one opportunity has just been scored for
\* another one.
C21_Witness ==
    /\ last.op \in ScorerOps
    /\ last.writes # <<>>
    /\ \E r \in DOMAIN scores_db.scores :
           /\ Cardinality(DOMAIN scores_db.scores[r]) > 1
           /\ \E o \in DOMAIN scores_db.scores[r] :
                  scores_db.scores[r][o].scored_at < clock
    /\ Cardinality(DOMAIN resumes_db.resumes) > 1

\* C22. Store mutations are serialized: when two save_score calls for
\* different pairs, or two register_resume calls with different filenames,
\* run concurrently on the same store, each read-modify-write takes effect as
\* a single unit: afterwards both Scores are present, and the two
\* registrations have distinct ids and both records are present.
C22_NoLostUpdate ==
    /\ last.op = "concurrent_save_score" =>
           {last.arg.pairs[1], last.arg.pairs[2]} \subseteq ScoredPairs(scores_db)
    /\ last.op = "concurrent_register_resume" =>
           /\ last.ret[1] # last.ret[2]
           /\ \A t \in {1, 2} :
                  /\ last.ret[t] \in DOMAIN resumes_db.resumes
                  /\ resumes_db.resumes[last.ret[t]].filename = last.arg.filenames[t]

\* C23. score_all_resumes_all_opportunities applies the same skip policy per
\* pair as score_all_for_opportunity: from the same store, with the same
\* oracle and force flag, the pairs the oracle is invoked for, the scores
\* collection afterwards and the result list of every opportunity are those of
\* score_all_for_opportunity called once for every opportunity; and when it
\* completes the progress counter is the number of pairs.
RECURSIVE PerOpportunity(_, _, _, _, _)
PerOpportunity(acc, opp_ids, force, oracle, fault) ==
    IF opp_ids = <<>> THEN acc
    ELSE LET one == ScoreAllForOpportunity([acc.st EXCEPT !.ret = None], Head(opp_ids),
                                           force, oracle, fault)
         IN PerOpportunity([st |-> one,
                            ret |-> Put(acc.ret, Head(opp_ids), one.ret),
                            raised |-> acc.raised \/ one.raised # "none"],
                           Tail(opp_ids), force, oracle, fault)

CalledPairs(calls) == {calls[i].pair : i \in 1..Len(calls)}

C23_AllPairsAsPerOpportunity ==
    [][(/\ last'.op = "score_all_resumes_all_opportunities"
        /\ last'.raised = "none"
        /\ "oracle" \in DOMAIN last'.arg) =>
          LET each == PerOpportunity([st |-> Enter(scores_db, clock, None),
                                      ret |-> EmptyDict, raised |-> FALSE],
                                     Keys(opportunities_db.opportunities),
                                     last'.arg.force, last'.arg.oracle, last'.arg.fault)
          IN /\ ~each.raised
             /\ CalledPairs(each.st.calls) = CalledPairs(last'.calls)
             /\ each.st.db = scores_db'
             /\ each.ret = last'.ret
             /\ last'.completed = Cardinality(DOMAIN resumes_db.resumes)
                                    * Cardinality(DOMAIN opportunities_db.opportunities)]_vars

\* A run without force over a store holding a Score below the threshold and a
\* Score at or above it, which invoked the oracle for the other pairs.
C23_Witness ==
    /\ last.op = "score_all_resumes_all_opportunities"
    /\ last.raised = "none"
    /\ "oracle" \in DOMAIN last.arg
    /\ ~last.arg.force
    /\ last.calls # <<>>
    /\ last.completed = 4
    /\ \E p \in ScoredPairs(scores_db) \ CalledPairs(last.calls) :
           OverallOf(scores_db.scores[p[1]][p[2]]) < Threshold
    /\ \E p \in ScoredPairs(scores_db) \ CalledPairs(last.calls) :
           OverallOf(scores_db.scores[p[1]][p[2]]) >= Threshold

\* C24. Grade repair is stable under re-save: after fix_grades has repaired a
\* row (not a dry run) its grade is calculate_grade(overall_score), saving the
\* row again leaves the grade as it is, and a second run of fix_grades counts
\* the row as unchanged.
C24_RepairStable ==
    (last.op = "fix_single_grade" /\ ~last.arg.dry_run) =>
        /\ last.ret.grade = CalculateGrade(last.ret.overall_score)
        /\ ResumeScoreSave(last.ret).grade = last.ret.grade
        /\ ResumeScoreSave(ResumeScoreSave(last.ret)).grade = last.ret.grade
        /\ FixSingleGrade(last.ret, FALSE).stat = "unchanged"

\* C25. Contact back-fill: after scan_for_new_resumes has registered a new
\* candidate, the record in the store (what get_resume returns and reports
\* show) carries the email and the phone that find_email and find_phone
\* extracted from its text.
C25_ContactBackfill ==
    (last.op = "scan_for_new_resumes" /\ last.raised = "none") =>
        \A i \in 1..Len(last.ret) :
            LET resume == GetResume(resumes_db, last.ret[i])
            IN resume # None =>
                   /\ resume.email = FindEmail(resume.filename)
                   /\ resume.phone = FindPhone(resume.filename)

\* C26. With force=False no scorer operation invokes the oracle for a pair
\* that already has a stored Score, whatever its overall: each of the four
\* operations invokes the oracle at most once per pair and only for pairs
\* without a Score, and leaves every Score stored before it as it was.
C26_NoOracleForScoredPair ==
    [][(last'.op \in ScorerOps /\ ~last'.arg.force) =>
          /\ \A i \in 1..Len(last'.calls) :
                 /\ last'.calls[i].pair \notin ScoredPairs(scores_db)
                 /\ \A j \in 1..Len(last'.calls) :
                        last'.calls[j].pair = last'.calls[i].pair => j = i
          /\ \A p \in ScoredPairs(scores_db) :
                 GetScore(scores_db', p[1], p[2]) = GetScore(scores_db, p[1], p[2])]_vars

\* A batch without force has invoked the oracle and saved a Score, and has
\* left alone a pair it covers whose Score is at or above the threshold.
C26_Witness ==
    /\ last.op \in BatchOps
    /\ ~last.arg.force
    /\ last.calls # <<>>
    /\ last.writes # <<>>
    /\ \E p \in (ScoredPairs(scores_db) \cap Covered(last)) \ CalledPairs(last.calls) :
           OverallOf(scores_db.scores[p[1]][p[2]]) >= Threshold

\* C27. Failure leaves the store unchanged: when score_resume_for_opportunity
\* raises ScoringError for a missing entity, an oracle failure or a parse
\* failure, also under force=True, the scores collection is exactly as before
\* the call: a Score stored for the pair is preserved, nothing is written.
C27_FailureLeavesScores ==
    [][(/\ last'.op = "score_resume_for_opportunity"
        /\ last'.raised = "ScoringError"
        /\ ~last'.ioerr) =>
          /\ scores_db' = scores_db
          /\ last'.writes = <<>>]_vars

\* A forced re-score of a pair that has a Score has asked the oracle and
\* raised ScoringError.
C27_Witness ==
    /\ last.op = "score_resume_for_opportunity"
    /\ last.raised = "ScoringError"
    /\ ~last.ioerr
    /\ last.arg.force
    /\ last.calls # <<>>
    /\ <<last.arg.resume_id, last.arg.opp_id>> \in ScoredPairs(scores_db)

\* C28. AutoScorer.process_new_files scores only what is new: in one cycle the
\* oracle is invoked only for pairs in which the candidate or the opportunity
\* was registered by that cycle's scan; when the scan finds nothing new the
\* cycle returns False with no oracle call, no metadata update and no report
\* export; and if every pair of registered entities had a Score before the
\* cycle and no oracle call fails during it, every pair of registered
\* entities, new candidate x new opportunity included, has a Score after it.
NewResumes(l) == Range(l.arg.new_resume_ids)

NewOpportunities(l) == Range(l.arg.new_opp_ids)

OraclePartOfCycle(l) ==
    \A i \in 1..Len(l.calls) :
        \/ l.calls[i].pair[1] \in NewResumes(l)
        \/ l.calls[i].pair[2] \in NewOpportunities(l)

NothingNewPartOfCycle(l) ==
    (NewResumes(l) = {} /\ NewOpportunities(l) = {}) =>
        /\ l.ret.value = FALSE
        /\ l.calls = <<>>
        /\ l.writes = <<>>
        /\ l.ret.exported = <<>>

NoOracleCallFailed(l) ==
    \A i \in 1..Len(l.calls) : CallOpenaiScoring(l.calls[i].resp).raised = "none"

C28_CycleScoresTheNew ==
    [][last'.op = "process_new_files" =>
          /\ OraclePartOfCycle(last')
          /\ NothingNewPartOfCycle(last')
          /\ (/\ ((DOMAIN resumes_db.resumes) \ NewResumes(last'))
                    \X ((DOMAIN opportunities_db.opportunities) \ NewOpportunities(last'))
                    \subseteq ScoredPairs(scores_db)
              /\ NoOracleCallFailed(last'))
                => (DOMAIN resumes_db'.resumes) \X (DOMAIN opportunities_db'.opportunities)
                       \subseteq ScoredPairs(scores_db')]_vars

\* C29. Racing background scorers keep one Score per pair: when the thread
\* started for a new Resume and the thread started for a new Opportunity both
\* process the same (resume, opportunity) pair, in any interleaving of their
\* exists-checks and scoring steps, at most one ResumeScore row exists for the
\* pair, and neither thread ends its loop early because of the other: each
\* goes through all its pairs.
C29_OneRowPerPair ==
    last.op = "racing_scorers" =>
        /\ \A i \in 1..Len(last.ret.rows) :
               Cardinality(RowsFor(last.ret.rows, last.ret.rows[i].pair)) <= 1
        /\ \A t \in {1, 2} :
               /\ last.ret.th[t].processed + Len(last.ret.th[t].items) = 2
               /\ last.ret.th[t].pc = "done" => last.ret.th[t].processed = 2

\* Both threads are done, both have asked the oracle for the pair they share
\* and got a score, and the pair has its row.
C29_Witness ==
    /\ last.op = "racing_scorers"
    /\ \A t \in {1, 2} : last.ret.th[t].pc = "done"
    /\ Cardinality({i \in 1..Len(last.calls) :
                       /\ last.calls[i].pair = last.arg.pair
                       /\ ~ServiceFails(last.calls[i].resp)}) = 2
    /\ RowsFor(last.ret.rows, last.arg.pair) # {}

\* C30. Referential integrity of scores: after any sequence of monitor scans
\* and scorer operations on a store from which nothing is removed from
\* outside, every stored Score key (candidate_id, opportunity_id) refers to a
\* candidate and an opportunity that the store holds; and
\* score_all_for_opportunity with an opportunity id the store does not hold
\* writes no Score, asks no oracle, and what it returns is the empty list.
C30_ScoresReferToEntities ==
    /\ ScoredPairs(scores_db) \subseteq
           (DOMAIN resumes_db.resumes) \X (DOMAIN opportunities_db.opportunities)
    /\ (/\ last.op = "score_all_for_opportunity"
        /\ last.arg.opp_id \notin DOMAIN opportunities_db.opportunities)
       => /\ last.calls = <<>>
          /\ last.writes = <<>>
          /\ last.raised = "none" => last.ret = <<>>

\* score_all_for_opportunity has gone through the resumes of the store for
\* an opportunity id the store does not hold, and returned.
C30_Witness ==
    /\ last.op = "score_all_for_opportunity"
    /\ last.arg.opp_id \notin DOMAIN opportunities_db.opportunities
    /\ DOMAIN resumes_db.resumes # {}
    /\ ScoredPairs(scores_db) # {}
    /\ last.raised = "none"
    /\ Len(last.errors) = Cardinality(DOMAIN resumes_db.resumes)

====
